---- MODULE Spec2Model ----
(***************************************************************************)
(* State-machine model of the comfy-mqtt storage engine                    *)
(* (src/src/config/database.ts, class PostgreSQLDatabase) and of the HTTP  *)
(* routes that call it.  Every SQL statement the code awaits is one atomic *)
(* step of the calling operation; operations of different callers          *)
(* interleave between statements and share one connection pool.            *)
(***************************************************************************)
EXTENDS Integers, Sequences, FiniteSets, TLC

(***************************************************************************)
(* Bounds of the model.                                                    *)
(***************************************************************************)
\* concurrent callers are Procs == 1..NumProcs
NumProcs == 2
\* operations started in one behaviour of Spec
MaxOps == 3
\* connections of the pool (the code configures 20; the model scales it down)
PoolMax == 2
\* largest value of the wall clock behind CURRENT_TIMESTAMP
MaxTime == 2
\* statement failures injected in one behaviour
MaxFaults == 1
\* puts issued in one behaviour of SpecSeq
MaxSeqPuts == 12
\* puts issued in one behaviour of SpecPuts
MaxPuts == 3
\* operations started in one behaviour of SpecFetch
MaxFetchOps == 5
\* operations started in one behaviour of SpecRegistry
MaxRegistryOps == 5
\* operations started in one behaviour of SpecRace
MaxRaceOps == 4
\* connections of the pool in SpecRace: enough for every caller to hold two
RacePool == 4
\* puts issued in one behaviour of SpecRetention
MaxRetentionOps == 3
\* puts issued in one behaviour of SpecShared
MaxSharedOps == 3
\* operations issued in one behaviour of SpecLifecycle
MaxLifecycleOps == 3

\* this.maxTableSizeKB, read from MAX_DB_TABLE_SIZE; a small configured value
maxTableSizeKB == 23

Procs == 1..NumProcs

\* topic names are sequences of characters
Names == { <<"a", "/", "b">>, <<"a", "_", "b">> }

\* footprint, in KB, that one stored row adds to its table
Sizes == {1, 12, 24}

AlphaNum ==
  { "a","b","c","d","e","f","g","h","i","j","k","l","m","n","o","p","q","r",
    "s","t","u","v","w","x","y","z","A","B","C","D","E","F","G","H","I","J",
    "K","L","M","N","O","P","Q","R","S","T","U","V","W","X","Y","Z",
    "0","1","2","3","4","5","6","7","8","9" }

\* topicName.replace(/[^a-zA-Z0-9]/g, '_')
Sanitize(name) ==
  [i \in 1..Len(name) |-> IF name[i] \in AlphaNum THEN name[i] ELSE "_"]

\* `topic_${sanitizedTopicName}`
getTopicTableName(topicName) == <<"topic_">> \o Sanitize(topicName)

\* the generic table of schema.sql
Messages == <<"messages">>

(***************************************************************************)
(* Topic schemas: a JS object, its entries [name, type] in insertion order. *)
(***************************************************************************)
Field(n, t) == [name |-> n, type |-> t]

\* the characters of field names, in byte order
Alphabet == <<",", "-", "1", "2", "_", "h", "t">>
Rank(c) == CHOOSE i \in DOMAIN Alphabet : Alphabet[i] = c

\* byte-wise comparison of two strings of equal length
RECURSIVE BytesLess(_, _)
BytesLess(a, b) ==
  IF a = <<>> THEN FALSE
  ELSE IF Head(a) # Head(b) THEN Rank(Head(a)) < Rank(Head(b))
  ELSE BytesLess(Tail(a), Tail(b))

\* key order of a JSONB object: shorter keys first, then byte-wise
KeyLess(a, b) == Len(a) < Len(b) \/ (Len(a) = Len(b) /\ BytesLess(a, b))

\* what the column `schema JSONB` gives back for the object JSON.stringify
\* wrote: the same entries, the keys in JSONB order
Jsonb(schema) ==
  [i \in 1..Len(schema) |->
     CHOOSE f \in { schema[j] : j \in DOMAIN schema } :
       Cardinality({ g \in { schema[j] : j \in DOMAIN schema } :
                       KeyLess(g.name, f.name) }) = i - 1]

\* a key that JS treats as an array index: decimal digits, no leading zero
Digits == {"0", "1", "2", "3", "4", "5", "6", "7", "8", "9"}
IsIndexKey(k) ==
  /\ k # <<>>
  /\ \A i \in DOMAIN k : k[i] \in Digits
  /\ Len(k) > 1 => k[1] # "0"

\* Object.entries(schema) / Object.keys(schema): index keys in ascending
\* numeric order, then the other keys in insertion order
ObjectEntries(schema) ==
  LET idx == { i \in DOMAIN schema : IsIndexKey(schema[i].name) }
      pos(i) ==
        IF i \in idx
        THEN 1 + Cardinality({ j \in idx : KeyLess(schema[j].name, schema[i].name) })
        ELSE Cardinality(idx) + Cardinality({ j \in DOMAIN schema \ idx : j <= i })
  IN  [k \in 1..Len(schema) |-> schema[CHOOSE i \in DOMAIN schema : pos(i) = k]]

\* fieldType.toLowerCase() on the spellings the model uses
toLowerCase(t) ==
  CASE t = "Number" -> "number"
    [] t = "Object" -> "object"
    [] OTHER        -> t

\* typeof fieldType === 'object': a nested object or array as field type
IsNested(t) == t = "{}"

\* pgType with the switch on fieldType itself, not on fieldType.toLowerCase()
pgType_CaseSensitive(t) ==
  CASE IsNested(t) -> "JSONB"
    [] t \in {"number", "integer"} -> "NUMERIC"
    [] t = "boolean"               -> "BOOLEAN"
    [] t \in {"date", "timestamp"} -> "TIMESTAMP"
    [] t \in {"array", "object"}   -> "JSONB"
    [] OTHER                       -> "TEXT"

\* generateColumnsFromSchema: the PostgreSQL type of a field type
pgType(t) ==
  CASE IsNested(t) -> "JSONB"
    [] toLowerCase(t) \in {"number", "integer"} -> "NUMERIC"
    [] toLowerCase(t) = "boolean"               -> "BOOLEAN"
    [] toLowerCase(t) \in {"date", "timestamp"} -> "TIMESTAMP"
    [] toLowerCase(t) \in {"array", "object"}   -> "JSONB"
    [] OTHER                                    -> "TEXT"

\* generateColumnsFromSchema: `${columnName} ${pgType}` per entry
generateColumnsFromSchema(schema) ==
  [i \in 1..Len(schema) |->
     [column |-> Sanitize(ObjectEntries(schema)[i].name),
      type |-> pgType(ObjectEntries(schema)[i].type)]]

\* the column names of a column list
ColumnNames(cols) == { cols[i].column : i \in DOMAIN cols }

\* the schemas callers register in Spec and in the partial specifications
S1 == << Field(<<"t">>, "number") >>
S2 == << Field(<<"t">>, "number"), Field(<<"h">>, "number") >>

VARIABLES
  topics,     \* table topics: registered name ->
              \*   [schema, use_dedicated_table, created_at]
  tables,     \* existing data tables: name -> [rows, seq, dead, cols]
  now,        \* wall clock read by DEFAULT CURRENT_TIMESTAMP
  inUse,      \* pool connections checked out
  pc,         \* per caller: the statement it is about to run
  loc,        \* per caller: arguments and locals of its operation
  ops,        \* operations started so far
  faults,     \* statement failures injected so far
  subscribedTopics,  \* MqttServiceImpl.subscribedTopics: topic -> Joi schema
  client,     \* the MQTT client: the subscriptions it has sent to the broker
              \*   and the subscribe callbacks that wait for their SUBACK
  isConnected,  \* MqttServiceImpl.isConnected
  session     \* history of the MQTT session: whether the transport is up, the
              \*   last of the connect, error and close events, and the topics
              \*   whose last acknowledged request is a SUBSCRIBE

vars == <<topics, tables, now, inUse, pc, loc, ops, faults, subscribedTopics, client,
         isConnected, session>>

\* the state of the MQTT service, which no database operation touches
mqttVars == <<subscribedTopics, client, isConnected, session>>

\* the MQTT service after connect(): nothing subscribed
NoSubscriptions ==
  /\ subscribedTopics = <<>>
  /\ client = [subscriptions |-> {}, callbacks |-> <<>>]
  /\ isConnected = FALSE
  /\ session = [online |-> FALSE, event |-> "none", acked |-> {}]

(***************************************************************************)
(* Helpers on rows and tables.                                             *)
(***************************************************************************)
RECURSIVE SumSizes(_)
SumSizes(S) ==
  IF S = {} THEN 0
  ELSE LET r == CHOOSE x \in S : TRUE IN r.size + SumSizes(S \ {r})

\* a freshly created table (CREATE TABLE: empty, SERIAL sequence at 1) with
\* the columns cols next to id and received_at
TopicTable(cols) == [rows |-> {}, seq |-> 1, dead |-> 0, cols |-> cols]

\* the table messages: its columns are fixed by schema.sql
EmptyTable == TopicTable(<<>>)

\* pg_total_relation_size, in KB: live rows plus space of deleted rows that
\* no VACUUM FULL has reclaimed yet
Footprint(t) == SumSizes(tables[t].rows) + tables[t].dead

\* ORDER BY received_at ASC, id ASC
Before(r1, r2) ==
  \/ r1.received_at < r2.received_at
  \/ r1.received_at = r2.received_at /\ r1.id < r2.id

\* SELECT id FROM t ORDER BY received_at ASC, id ASC LIMIT k
OldestRows(S, k) == { r \in S : Cardinality({ q \in S : Before(q, r) }) < k }

\* RowsToDelete with Math.floor in place of Math.ceil
RowsToDelete_Floor(F, n) ==
  LET num == (10 * F - 8 * maxTableSizeKB) * n
      den == 10 * F
  IN  IF num <= 0 THEN 0 ELSE num \div den

\* Math.ceil(excessSizeKB / averageRowSizeKB) with targetSizeKB = max * 0.8,
\* in exact arithmetic: ceil((F - 0.8 M) / (F / n)) = ceil((10F - 8M) n / 10F)
RowsToDelete(F, n) ==
  LET num == (10 * F - 8 * maxTableSizeKB) * n
      den == 10 * F
  IN  IF num <= 0 THEN 0 ELSE (num + den - 1) \div den

\* the limit argument: null (the route passes null when the query has no
\* limit) or the number parsed from the query
NoLimit == [given |-> FALSE, n |-> 0]
Limit(n) == [given |-> TRUE, n |-> n]
Limits == {NoLimit} \cup { Limit(n) : n \in 0..2 }
Offsets == 0..1
Orders == {"asc", "desc"}
FetchArgs == [limit : Limits, offset : Offsets, order : Orders]

\* the locals of an operation that has not started
Idle ==
  [op |-> "none", topic |-> <<>>, ded |-> FALSE, size |-> 0, id |-> 0,
   unit |-> <<>>, F |-> 0, k |-> 0, ret |-> "none", found |-> FALSE,
   deleted |-> 0, attempts |-> 0, creates |-> 0,
   args |-> [limit |-> NoLimit, offset |-> 0, order |-> "asc"], snap |-> {},
   schema |-> <<>>, tschema |-> <<>>, fresh |-> FALSE,
   payload |-> <<>>, values |-> <<>>, driver |-> "none",
   out |-> [kind |-> "none"], csv |-> <<>>,
   res |-> [kind |-> "none"]]

Ok(v) == [kind |-> "ok", value |-> v]
Err(e) == [kind |-> "error", error |-> e]

TypeOK ==
  /\ DOMAIN topics \subseteq Names
  /\ Messages \in DOMAIN tables
  /\ now \in 1..MaxTime
  /\ inUse \in 0..PoolMax
  /\ ops \in Nat /\ faults \in 0..MaxFaults

Init ==
  /\ topics = <<>>
  /\ tables = (Messages :> EmptyTable)
  /\ now = 1
  /\ inUse = 0
  /\ pc = [p \in Procs |-> "idle"]
  /\ loc = [p \in Procs |-> Idle]
  /\ ops = 0
  /\ faults = 0
  /\ NoSubscriptions

(***************************************************************************)
(* Control flow shared by all operations.                                  *)
(***************************************************************************)
\* Finish without the finally blocks: the clients stay checked out
Finish_NoRelease(p, r, n) ==
  /\ pc' = [pc EXCEPT ![p] = "done"]
  /\ loc' = [loc EXCEPT ![p].res = r]
  /\ inUse' = inUse

\* the operation of p ends with result r; n pooled clients are released by
\* the finally blocks on the way out
Finish(p, r, n) ==
  /\ pc' = [pc EXCEPT ![p] = "done"]
  /\ loc' = [loc EXCEPT ![p].res = r]
  /\ inUse' = inUse - n

Goto(p, label) == pc' = [pc EXCEPT ![p] = label]

\* first statement of each operation after `await this.pool.connect()`
FirstStatement(op) ==
  CASE op = "storeMessage" -> "sm_lookup"
    [] op = "getMessages"  -> "gm_lookup"
    [] op = "addTopic"     -> "at_upsert"
    [] OTHER               -> "dt_lookup"

\* a caller issues storeMessage(topicName, payload): the topic is one of
\* names, the row the payload makes has one of sizes, and fewer than max
\* operations were started before
IssueStoreMessage(p, names, sizes, max) ==
  /\ pc[p] = "idle" /\ ops < max
  /\ \E t \in names, s \in sizes :
       loc' = [loc EXCEPT ![p] = [Idle EXCEPT !.op = "storeMessage",
                                               !.topic = t, !.size = s]]
  /\ Goto(p, "connect")
  /\ ops' = ops + 1
  /\ UNCHANGED <<topics, tables, now, inUse, faults, mqttVars>>

StartStoreMessage(p) == IssueStoreMessage(p, Names, Sizes, MaxOps)

\* a caller issues getMessages(topicName, limit, offset, includeMetadata, order);
\* limit, offset and order are read by the SELECT alone and are drawn there
IssueGetMessages(p, max) ==
  /\ pc[p] = "idle" /\ ops < max
  /\ \E t \in Names :
       loc' = [loc EXCEPT ![p] = [Idle EXCEPT !.op = "getMessages", !.topic = t]]
  /\ Goto(p, "connect")
  /\ ops' = ops + 1
  /\ UNCHANGED <<topics, tables, now, inUse, faults, mqttVars>>

StartGetMessages(p) == IssueGetMessages(p, MaxOps)

\* a caller issues addTopic(topicName, schema, useDedicatedTable) with a name
\* of names and a schema of schemas
IssueAddTopic(p, names, schemas, max) ==
  /\ pc[p] = "idle" /\ ops < max
  /\ \E t \in names, sc \in schemas, d \in BOOLEAN :
       loc' = [loc EXCEPT ![p] = [Idle EXCEPT !.op = "addTopic", !.topic = t,
                                               !.schema = sc, !.ded = d]]
  /\ Goto(p, "connect")
  /\ ops' = ops + 1
  /\ UNCHANGED <<topics, tables, now, inUse, faults, mqttVars>>

StartAddTopic(p) == IssueAddTopic(p, Names, {S1}, MaxOps)

\* a caller issues deleteTopic(topicName) on the database service
IssueDeleteTopic(p, max) ==
  /\ pc[p] = "idle" /\ ops < max
  /\ \E t \in Names :
       loc' = [loc EXCEPT ![p] = [Idle EXCEPT !.op = "deleteTopic", !.topic = t]]
  /\ Goto(p, "connect")
  /\ ops' = ops + 1
  /\ UNCHANGED <<topics, tables, now, inUse, faults, mqttVars>>

StartDeleteTopic(p) == IssueDeleteTopic(p, MaxOps)

\* a client sends DELETE /api/topics/<name>: router.delete('/*')
StartDeleteRoute(p) ==
  /\ pc[p] = "idle" /\ ops < MaxOps
  /\ \E t \in Names :
       loc' = [loc EXCEPT ![p] = [Idle EXCEPT !.op = "deleteRoute", !.topic = t]]
  /\ Goto(p, "rt_connect")
  /\ ops' = ops + 1
  /\ UNCHANGED <<topics, tables, now, inUse, faults, mqttVars>>

\* await this.pool.connect() at the head of an operation, on a pool of size
\* connections: a client is free
ConnectWithin(p, size) ==
  /\ pc[p] = "connect" /\ inUse < size
  /\ inUse' = inUse + 1
  /\ Goto(p, FirstStatement(loc[p].op))
  /\ UNCHANGED <<topics, tables, now, loc, ops, faults, mqttVars>>

Connect(p) == ConnectWithin(p, PoolMax)

\* the pool is exhausted and connectionTimeoutMillis passes: connect rejects;
\* it is outside the try block, so nothing is released
ConnectTimeout(p) ==
  /\ pc[p] = "connect" /\ inUse = PoolMax
  /\ Finish(p, Err("StorageError"), 0)
  /\ UNCHANGED <<topics, tables, now, ops, faults, mqttVars>>

\* the caller takes the result and forgets the operation
Return(p) ==
  /\ pc[p] = "done"
  /\ pc' = [pc EXCEPT ![p] = "idle"]
  /\ loc' = [loc EXCEPT ![p] = Idle]
  /\ UNCHANGED <<topics, tables, now, inUse, ops, faults, mqttVars>>

(***************************************************************************)
(* storeMessage                                                            *)
(***************************************************************************)
\* NewRow with the id taken from the number of rows, not from the sequence
NewRow_CountId(t, topicName, size) ==
  IF t = Messages
  THEN [id |-> Cardinality(tables[t].rows) + 1, topic_name |-> topicName,
        received_at |-> now, size |-> size]
  ELSE [id |-> Cardinality(tables[t].rows) + 1, received_at |-> now, size |-> size]

\* the row an INSERT appends: id from the SERIAL sequence, received_at from
\* DEFAULT CURRENT_TIMESTAMP; the generic table also stores topic_name
NewRow(t, topicName, size) ==
  IF t = Messages
  THEN [id |-> tables[t].seq, topic_name |-> topicName,
        received_at |-> now, size |-> size]
  ELSE [id |-> tables[t].seq, received_at |-> now, size |-> size]

\* the column list of `INSERT INTO topic_<name> (...)` names columns the
\* table has (else error 42703), and is not empty (else a syntax error)
InsertFits(schema, t) ==
  /\ schema # <<>>
  /\ ColumnNames(generateColumnsFromSchema(schema)) \subseteq ColumnNames(tables[t].cols)

\* the INSERT of p fails with an error that is not 42P01: it is rethrown
InsertRejected(p) ==
  /\ pc' = [pc EXCEPT ![p] = "done"]
  /\ loc' = [loc EXCEPT ![p].attempts = @ + 1, ![p].res = Err("StorageError")]
  /\ inUse' = inUse - 1

\* INSERT INTO t ... RETURNING id, on an existing table; the clock may
\* advance before the next statement
InsertInto(p, t) ==
  /\ tables' = [tables EXCEPT ![t].rows = @ \cup {NewRow(t, loc[p].topic, loc[p].size)},
                              ![t].seq = @ + 1]
  /\ \E t2 \in {now, IF now < MaxTime THEN now + 1 ELSE now} : now' = t2
  /\ loc' = [loc EXCEPT ![p].id = tables[t].seq, ![p].unit = t,
                        ![p].attempts = @ + 1]
  /\ Goto(p, "mr_connect")

\* StoreLookup without the rows.length === 0 check: an absent topic is taken
\* for one on the generic table
StoreLookup_Unchecked(p) ==
  /\ pc[p] = "sm_lookup"
  /\ LET d == IF loc[p].topic \in DOMAIN topics
               THEN topics[loc[p].topic].use_dedicated_table ELSE FALSE IN
     /\ loc' = [loc EXCEPT ![p].ded = d, ![p].found = TRUE]
     /\ Goto(p, IF d THEN "sm_schema" ELSE "sm_insert_g")
  /\ UNCHANGED <<topics, tables, now, inUse, ops, faults, mqttVars>>

\* SELECT use_dedicated_table FROM topics WHERE name = $1
StoreLookup(p) ==
  /\ pc[p] = "sm_lookup"
  /\ IF loc[p].topic \notin DOMAIN topics
     THEN /\ Finish(p, Err("NotFound"), 1)
     ELSE /\ loc' = [loc EXCEPT ![p].ded = topics[loc[p].topic].use_dedicated_table,
                                ![p].found = TRUE]
          /\ Goto(p, IF topics[loc[p].topic].use_dedicated_table
                     THEN "sm_schema" ELSE "sm_insert_g")
          /\ UNCHANGED inUse
  /\ UNCHANGED <<topics, tables, now, ops, faults, mqttVars>>

\* SELECT schema FROM topics WHERE name = $1 (dedicated branch)
StoreSchema(p) ==
  /\ pc[p] = "sm_schema"
  /\ IF loc[p].topic \notin DOMAIN topics
     THEN Finish(p, Err("NotFound"), 1)
     ELSE /\ loc' = [loc EXCEPT ![p].tschema = topics[loc[p].topic].schema]
          /\ Goto(p, "sm_insert_d")
          /\ UNCHANGED inUse
  /\ UNCHANGED <<topics, tables, now, ops, faults, mqttVars>>

\* INSERT INTO topic_<name>; error 42P01 when the table does not exist, which
\* the catch block answers with createTopicTable(topicName)
StoreInsertDedicated(p) ==
  /\ pc[p] = "sm_insert_d"
  /\ LET t == getTopicTableName(loc[p].topic) IN
     IF t \in DOMAIN tables /\ InsertFits(loc[p].tschema, t)
     THEN /\ InsertInto(p, t)
          /\ UNCHANGED <<topics, inUse, ops, faults, mqttVars>>
     ELSE IF t \in DOMAIN tables \/ loc[p].tschema = <<>>
     THEN /\ InsertRejected(p)
          /\ UNCHANGED <<topics, tables, now, ops, faults, mqttVars>>
     ELSE /\ loc' = [loc EXCEPT ![p].attempts = @ + 1, ![p].creates = @ + 1,
                                ![p].ret = "heal"]
          /\ Goto(p, "ct_connect")
          /\ UNCHANGED <<topics, tables, now, inUse, ops, faults, mqttVars>>

\* INSERT INTO messages (topic_name, payload); the foreign key on topic_name
\* rejects a row whose topic is no longer registered
StoreInsertGeneric(p) ==
  /\ pc[p] = "sm_insert_g"
  /\ IF loc[p].topic \in DOMAIN topics
     THEN /\ InsertInto(p, Messages)
          /\ UNCHANGED <<topics, inUse, ops, faults, mqttVars>>
     ELSE /\ pc' = [pc EXCEPT ![p] = "done"]
          /\ loc' = [loc EXCEPT ![p].attempts = @ + 1,
                                ![p].res = Err("StorageError")]
          /\ inUse' = inUse - 1
          /\ UNCHANGED <<topics, tables, now, ops, faults, mqttVars>>

\* catch block, after createTopicTable: SELECT schema FROM topics again
StoreHealSchema(p) ==
  /\ pc[p] = "sm_h_schema"
  /\ IF loc[p].topic \notin DOMAIN topics
     THEN Finish(p, Err("NotFound"), 1)
     ELSE /\ loc' = [loc EXCEPT ![p].tschema = topics[loc[p].topic].schema]
          /\ Goto(p, "sm_h_insert")
          /\ UNCHANGED inUse
  /\ UNCHANGED <<topics, tables, now, ops, faults, mqttVars>>

\* StoreHealInsert that answers a missing table with createTopicTable again
StoreHealInsert_Loop(p) ==
  /\ pc[p] = "sm_h_insert"
  /\ LET t == getTopicTableName(loc[p].topic) IN
     IF t \in DOMAIN tables /\ InsertFits(loc[p].tschema, t)
     THEN /\ InsertInto(p, t)
          /\ UNCHANGED <<topics, inUse, ops, faults, mqttVars>>
     ELSE /\ loc' = [loc EXCEPT ![p].attempts = @ + 1, ![p].creates = @ + 1]
          /\ Goto(p, "ct_connect")
          /\ inUse' = inUse
          /\ UNCHANGED <<topics, tables, now, ops, faults, mqttVars>>

\* catch block: the retried INSERT; an error here leaves the catch block and
\* reaches the caller
StoreHealInsert(p) ==
  /\ pc[p] = "sm_h_insert"
  /\ LET t == getTopicTableName(loc[p].topic) IN
     IF t \in DOMAIN tables /\ InsertFits(loc[p].tschema, t)
     THEN /\ InsertInto(p, t)
          /\ UNCHANGED <<topics, inUse, ops, faults, mqttVars>>
     ELSE /\ InsertRejected(p)
          /\ UNCHANGED <<topics, tables, now, ops, faults, mqttVars>>

(***************************************************************************)
(* createTopicTable, called by addTopic and by the catch block of          *)
(* storeMessage while the caller keeps its own client.                     *)
(***************************************************************************)
\* await this.pool.connect() inside createTopicTable
CreateConnectWithin(p, size) ==
  /\ pc[p] = "ct_connect" /\ inUse < size
  /\ inUse' = inUse + 1
  /\ Goto(p, "ct_schema")
  /\ UNCHANGED <<topics, tables, now, loc, ops, faults, mqttVars>>

CreateConnect(p) == CreateConnectWithin(p, PoolMax)

\* the pool is exhausted: connect rejects, the caller's finally releases its client
CreateConnectTimeout(p) ==
  /\ pc[p] = "ct_connect" /\ inUse = PoolMax
  /\ Finish(p, Err("StorageError"), 1)
  /\ UNCHANGED <<topics, tables, now, ops, faults, mqttVars>>

\* SELECT schema FROM topics WHERE name = $1
CreateSchema(p) ==
  /\ pc[p] = "ct_schema"
  /\ IF loc[p].topic \notin DOMAIN topics
     THEN Finish(p, Err("NotFound"), 2)
     ELSE /\ loc' = [loc EXCEPT ![p].tschema = topics[loc[p].topic].schema]
          /\ Goto(p, "ct_create")
          /\ UNCHANGED inUse
  /\ UNCHANGED <<topics, tables, now, ops, faults, mqttVars>>

\* CreateTable without IF NOT EXISTS semantics: an existing table is replaced
CreateTable_Replace(p) ==
  /\ pc[p] = "ct_create"
  /\ tables' = (getTopicTableName(loc[p].topic)
                 :> TopicTable(generateColumnsFromSchema(loc[p].tschema))) @@ tables
  /\ Goto(p, "ct_index")
  /\ UNCHANGED <<topics, now, inUse, loc, ops, faults, mqttVars>>

\* CREATE TABLE IF NOT EXISTS topic_<name> (id, <columns>, received_at); with
\* no column the statement has `,` twice in a row and is a syntax error
CreateTable(p) ==
  /\ pc[p] = "ct_create"
  /\ LET t == getTopicTableName(loc[p].topic)
         cols == generateColumnsFromSchema(loc[p].tschema)
     IN
     IF cols = <<>>
     THEN /\ Finish(p, Err("StorageError"), 2)
          /\ UNCHANGED tables
     ELSE /\ tables' = IF t \in DOMAIN tables THEN tables
                       ELSE (t :> TopicTable(cols)) @@ tables
          /\ Goto(p, "ct_index")
          /\ UNCHANGED <<inUse, loc>>
  /\ UNCHANGED <<topics, now, ops, faults, mqttVars>>

\* CREATE INDEX IF NOT EXISTS ... ON topic_<name>, then release and return to
\* the caller: addTopic is complete, storeMessage goes on to its retry
CreateIndex(p) ==
  /\ pc[p] = "ct_index"
  /\ IF getTopicTableName(loc[p].topic) \notin DOMAIN tables
     THEN Finish(p, Err("StorageError"), 2)
     ELSE IF loc[p].ret = "heal"
          THEN /\ Goto(p, "sm_h_schema")
               /\ inUse' = inUse - 1
               /\ UNCHANGED loc
          ELSE Finish(p, Ok(0), 2)
  /\ UNCHANGED <<topics, tables, now, ops, faults, mqttVars>>

(***************************************************************************)
(* manageTableRetention(tableName), called after each successful INSERT.   *)
(* Every error inside its try block is caught and answered with 0.         *)
(***************************************************************************)
\* await this.pool.connect() inside manageTableRetention
RetentionConnectWithin(p, size) ==
  /\ pc[p] = "mr_connect" /\ inUse < size
  /\ inUse' = inUse + 1
  /\ Goto(p, "mr_size")
  /\ UNCHANGED <<topics, tables, now, loc, ops, faults, mqttVars>>

RetentionConnect(p) == RetentionConnectWithin(p, PoolMax)

\* the pool is exhausted: connect rejects before the try block, the rejection
\* passes through storeMessage, whose finally releases its client
RetentionConnectTimeout(p) ==
  /\ pc[p] = "mr_connect" /\ inUse = PoolMax
  /\ Finish(p, Err("StorageError"), 1)
  /\ UNCHANGED <<topics, tables, now, ops, faults, mqttVars>>

\* manageTableRetention returns n; storeMessage returns result.rows[0].id;
\* both clients are released
RetentionReturn(p, n) ==
  /\ pc' = [pc EXCEPT ![p] = "done"]
  /\ loc' = [loc EXCEPT ![p].deleted = n, ![p].res = Ok(loc[p].id)]
  /\ inUse' = inUse - 2

\* RetentionSize without the comparison with maxTableSizeKB
RetentionSize_NoCheck(p) ==
  /\ pc[p] = "mr_size"
  /\ LET t == loc[p].unit IN
     IF t \notin DOMAIN tables
     THEN RetentionReturn(p, 0)
     ELSE /\ loc' = [loc EXCEPT ![p].F = Footprint(t)]
          /\ Goto(p, "mr_count")
          /\ UNCHANGED inUse
  /\ UNCHANGED <<topics, tables, now, ops, faults, mqttVars>>

\* SELECT pg_total_relation_size($1); under the limit: no action
RetentionSize(p) ==
  /\ pc[p] = "mr_size"
  /\ LET t == loc[p].unit IN
     IF t \notin DOMAIN tables \/ Footprint(t) <= maxTableSizeKB
     THEN RetentionReturn(p, 0)
     ELSE /\ loc' = [loc EXCEPT ![p].F = Footprint(t)]
          /\ Goto(p, "mr_count")
          /\ UNCHANGED inUse
  /\ UNCHANGED <<topics, tables, now, ops, faults, mqttVars>>

\* SELECT COUNT(*), then rowsToDelete from the average row size
RetentionCount(p) ==
  /\ pc[p] = "mr_count"
  /\ LET t == loc[p].unit
         n == Cardinality(tables[t].rows)
     IN
     IF t \notin DOMAIN tables \/ n = 0 \/ RowsToDelete(loc[p].F, n) <= 0
     THEN RetentionReturn(p, 0)
     ELSE /\ loc' = [loc EXCEPT ![p].k = RowsToDelete(loc[p].F, n)]
          /\ Goto(p, "mr_delete")
          /\ UNCHANGED inUse
  /\ UNCHANGED <<topics, tables, now, ops, faults, mqttVars>>

\* Evicted with ORDER BY received_at DESC, id DESC
Evicted_Newest(S, k) == { r \in S : Cardinality({ q \in S : Before(r, q) }) < k }

\* the rows the DELETE statement of a retention pass removes from S
Evicted(S, k) == OldestRows(S, k)

\* RetentionDelete that evicts from messages only rows of the put's own topic
RetentionDelete_OwnTopic(p) ==
  /\ pc[p] = "mr_delete"
  /\ LET t == loc[p].unit IN
     IF t \notin DOMAIN tables
     THEN RetentionReturn(p, 0) /\ UNCHANGED tables
     ELSE LET own == IF t = Messages
                     THEN { r \in tables[t].rows : r.topic_name = loc[p].topic }
                     ELSE tables[t].rows
              D == Evicted(own, loc[p].k)
          IN
          /\ tables' = [tables EXCEPT ![t].rows = @ \ D,
                                      ![t].dead = @ + SumSizes(D)]
          /\ IF D = {}
             THEN RetentionReturn(p, 0)
             ELSE /\ loc' = [loc EXCEPT ![p].deleted = Cardinality(D)]
                  /\ Goto(p, "mr_vacuum")
                  /\ UNCHANGED inUse
  /\ UNCHANGED <<topics, now, ops, faults, mqttVars>>

\* DELETE FROM t WHERE id IN (SELECT id ... ORDER BY received_at, id LIMIT $1)
RetentionDelete(p) ==
  /\ pc[p] = "mr_delete"
  /\ LET t == loc[p].unit IN
     IF t \notin DOMAIN tables
     THEN RetentionReturn(p, 0) /\ UNCHANGED tables
     ELSE LET D == Evicted(tables[t].rows, loc[p].k) IN
          /\ tables' = [tables EXCEPT ![t].rows = @ \ D,
                                      ![t].dead = @ + SumSizes(D)]
          /\ IF D = {}
             THEN RetentionReturn(p, 0)
             ELSE /\ loc' = [loc EXCEPT ![p].deleted = Cardinality(D)]
                  /\ Goto(p, "mr_vacuum")
                  /\ UNCHANGED inUse
  /\ UNCHANGED <<topics, now, ops, faults, mqttVars>>

\* VACUUM FULL t reclaims the space of the deleted rows
RetentionVacuum(p) ==
  /\ pc[p] = "mr_vacuum"
  /\ LET t == loc[p].unit IN
     tables' = IF t \in DOMAIN tables THEN [tables EXCEPT ![t].dead = 0] ELSE tables
  /\ RetentionReturn(p, loc[p].deleted)
  /\ UNCHANGED <<topics, now, ops, faults, mqttVars>>

(***************************************************************************)
(* getMessages                                                             *)
(***************************************************************************)
\* all orders in which the rows of S can be listed
Listings(S) ==
  { f \in [1..Cardinality(S) -> S] : \A i, j \in DOMAIN f : i # j => f[i] # f[j] }

\* OrderedBy that ignores the requested direction
OrderedBy_AscOnly(s, order) ==
  \A i, j \in DOMAIN s : i < j => s[i].received_at <= s[j].received_at

\* ORDER BY received_at ASC|DESC: the statement names no other sort key, so
\* rows with equal received_at come in whatever order the database produces
OrderedBy(s, order) ==
  \A i, j \in DOMAIN s :
    i < j => IF order = "asc" THEN s[i].received_at <= s[j].received_at
                              ELSE s[i].received_at >= s[j].received_at

\* if (limit): null, and 0, are falsy
Truthy(limit) == limit.given /\ limit.n # 0

\* LIMIT $1 OFFSET $2 when `if (limit)` holds, else OFFSET $1 alone
Page(s, limit, offset) ==
  IF Truthy(limit)
  THEN SubSeq(s, offset + 1, IF offset + limit.n < Len(s) THEN offset + limit.n ELSE Len(s))
  ELSE SubSeq(s, offset + 1, Len(s))

\* the sequences a SELECT ... ORDER BY received_at <order> [LIMIT] OFFSET can return
QueryResults(S, a) ==
  { Page(s, a.limit, a.offset) : s \in { f \in Listings(S) : OrderedBy(f, a.order) } }

\* SELECT use_dedicated_table FROM topics WHERE name = $1
FetchLookup(p) ==
  /\ pc[p] = "gm_lookup"
  /\ IF loc[p].topic \notin DOMAIN topics
     THEN /\ Finish(p, Err("NotFound"), 1)
     ELSE /\ loc' = [loc EXCEPT ![p].ded = topics[loc[p].topic].use_dedicated_table,
                                ![p].found = TRUE]
          /\ Goto(p, IF topics[loc[p].topic].use_dedicated_table
                     THEN "gm_schema" ELSE "gm_query")
          /\ UNCHANGED inUse
  /\ UNCHANGED <<topics, tables, now, ops, faults, mqttVars>>

\* SELECT schema FROM topics WHERE name = $1 (dedicated branch)
FetchSchema(p) ==
  /\ pc[p] = "gm_schema"
  /\ IF loc[p].topic \notin DOMAIN topics
     THEN Finish(p, Err("NotFound"), 1)
     ELSE /\ loc' = [loc EXCEPT ![p].tschema = topics[loc[p].topic].schema]
          /\ Goto(p, "gm_query")
          /\ UNCHANGED inUse
  /\ UNCHANGED <<topics, tables, now, ops, faults, mqttVars>>

\* Matching that reads the topic's rows of both backends
Matching_BothBackends(p) ==
  (IF getTopicTableName(loc[p].topic) \in DOMAIN tables
   THEN tables[getTopicTableName(loc[p].topic)].rows ELSE {})
  \cup { r \in tables[Messages].rows : r.topic_name = loc[p].topic }

\* the rows the SELECT of getMessages ranges over
Matching(p) ==
  IF loc[p].ded
  THEN tables[getTopicTableName(loc[p].topic)].rows
  ELSE { r \in tables[Messages].rows : r.topic_name = loc[p].topic }

\* the SELECT list of the dedicated query names columns the table has
SelectFits(schema, t) ==
  ColumnNames(generateColumnsFromSchema(schema)) \subseteq ColumnNames(tables[t].cols)

\* the SELECT on the topic's table or on messages; a missing dedicated table
\* (42P01) is caught and answered with [], a missing column (42703) is thrown
FetchQuery(p) ==
  /\ pc[p] = "gm_query"
  /\ IF loc[p].ded /\ getTopicTableName(loc[p].topic) \notin DOMAIN tables
     THEN Finish(p, Ok(<<>>), 1)
     ELSE IF loc[p].ded /\ ~SelectFits(loc[p].tschema, getTopicTableName(loc[p].topic))
     THEN Finish(p, Err("StorageError"), 1)
     ELSE \E a \in FetchArgs : \E s \in QueryResults(Matching(p), a) :
            /\ pc' = [pc EXCEPT ![p] = "done"]
            /\ loc' = [loc EXCEPT ![p].args = a, ![p].snap = Matching(p),
                                  ![p].res = Ok(s)]
            /\ inUse' = inUse - 1
  /\ UNCHANGED <<topics, tables, now, ops, faults, mqttVars>>

(***************************************************************************)
(* addTopic                                                                *)
(***************************************************************************)
\* the name has neither a registry entry nor a dedicated table
Unused(n) == n \notin DOMAIN topics /\ getTopicTableName(n) \notin DOMAIN tables

\* AddUpsert as DELETE followed by INSERT: the row is made anew
AddUpsert_Replace(p) ==
  /\ pc[p] = "at_upsert"
  /\ topics' = (loc[p].topic :> [schema |-> Jsonb(loc[p].schema),
                                 use_dedicated_table |-> loc[p].ded,
                                 created_at |-> now]) @@ topics
  /\ IF loc[p].ded
     THEN /\ loc' = [loc EXCEPT ![p].ret = "add", ![p].fresh = Unused(loc[p].topic)]
          /\ Goto(p, "ct_connect")
          /\ UNCHANGED inUse
     ELSE /\ pc' = [pc EXCEPT ![p] = "done"]
          /\ loc' = [loc EXCEPT ![p].res = Ok(0), ![p].fresh = Unused(loc[p].topic)]
          /\ inUse' = inUse - 1
  /\ UNCHANGED <<tables, now, ops, faults, mqttVars>>

\* INSERT INTO topics ... ON CONFLICT (name) DO UPDATE SET schema = $2,
\* use_dedicated_table = $3; a dedicated topic then calls createTopicTable.
\* loc.fresh notes that the statement inserted the row of an unused name.
AddUpsert(p) ==
  /\ pc[p] = "at_upsert"
  /\ LET n == loc[p].topic IN
     topics' =
       IF n \in DOMAIN topics
       THEN [topics EXCEPT ![n].schema = Jsonb(loc[p].schema),
                           ![n].use_dedicated_table = loc[p].ded]
       ELSE (n :> [schema |-> Jsonb(loc[p].schema),
                   use_dedicated_table |-> loc[p].ded,
                   created_at |-> now]) @@ topics
  /\ IF loc[p].ded
     THEN /\ loc' = [loc EXCEPT ![p].ret = "add", ![p].fresh = Unused(loc[p].topic)]
          /\ Goto(p, "ct_connect")
          /\ UNCHANGED inUse
     ELSE /\ pc' = [pc EXCEPT ![p] = "done"]
          /\ loc' = [loc EXCEPT ![p].res = Ok(0), ![p].fresh = Unused(loc[p].topic)]
          /\ inUse' = inUse - 1
  /\ UNCHANGED <<tables, now, ops, faults, mqttVars>>

(***************************************************************************)
(* deleteTopic, and the DELETE route that calls it                         *)
(***************************************************************************)
\* getTopic of the route: await this.pool.connect()
RouteConnect(p) ==
  /\ pc[p] = "rt_connect" /\ inUse < PoolMax
  /\ inUse' = inUse + 1
  /\ Goto(p, "rt_get")
  /\ UNCHANGED <<topics, tables, now, loc, ops, faults, mqttVars>>

\* the pool is exhausted: the route answers 500
RouteConnectTimeout(p) ==
  /\ pc[p] = "rt_connect" /\ inUse = PoolMax
  /\ Finish(p, Err("StorageError"), 0)
  /\ UNCHANGED <<topics, tables, now, ops, faults, mqttVars>>

\* getTopic of the route: SELECT * FROM topics WHERE name = $1; 404 when the
\* topic is absent, else unsubscribe and call database.deleteTopic
RouteGetTopic(p) ==
  /\ pc[p] = "rt_get"
  /\ IF loc[p].topic \notin DOMAIN topics
     THEN Finish(p, Err("NotFound"), 1)
     ELSE /\ Goto(p, "connect")
          /\ inUse' = inUse - 1
          /\ UNCHANGED loc
  /\ UNCHANGED <<topics, tables, now, ops, faults, mqttVars>>

\* SELECT use_dedicated_table FROM topics WHERE name = $1; when no row comes
\* back the code logs a warning and returns
DeleteLookup(p) ==
  /\ pc[p] = "dt_lookup"
  /\ IF loc[p].topic \notin DOMAIN topics
     THEN Finish(p, Ok(0), 1)
     ELSE /\ loc' = [loc EXCEPT ![p].ded = topics[loc[p].topic].use_dedicated_table,
                                ![p].found = TRUE]
          /\ Goto(p, "dt_delete")
          /\ UNCHANGED inUse
  /\ UNCHANGED <<topics, tables, now, ops, faults, mqttVars>>

\* DeleteRegistry whose cascade empties messages
DeleteRegistry_AllRows(p) ==
  /\ pc[p] = "dt_delete"
  /\ topics' = [n \in DOMAIN topics \ {loc[p].topic} |-> topics[n]]
  /\ tables' = [tables EXCEPT ![Messages].rows = {},
                              ![Messages].dead = @ + SumSizes(tables[Messages].rows)]
  /\ IF loc[p].ded
     THEN Goto(p, "dt_drop") /\ UNCHANGED <<loc, inUse>>
     ELSE Finish(p, Ok(0), 1)
  /\ UNCHANGED <<now, ops, faults, mqttVars>>

\* DELETE FROM topics WHERE name = $1; ON DELETE CASCADE removes the topic's
\* rows of messages
DeleteRegistry(p) ==
  /\ pc[p] = "dt_delete"
  /\ topics' = [n \in DOMAIN topics \ {loc[p].topic} |-> topics[n]]
  /\ LET gone == { r \in tables[Messages].rows : r.topic_name = loc[p].topic } IN
     tables' = [tables EXCEPT ![Messages].rows = @ \ gone,
                              ![Messages].dead = @ + SumSizes(gone)]
  /\ IF loc[p].ded
     THEN Goto(p, "dt_drop") /\ UNCHANGED <<loc, inUse>>
     ELSE Finish(p, Ok(0), 1)
  /\ UNCHANGED <<now, ops, faults, mqttVars>>

\* DeleteDrop that leaves the table in place
DeleteDrop_Keep(p) ==
  /\ pc[p] = "dt_drop"
  /\ Finish(p, Ok(0), 1)
  /\ UNCHANGED <<topics, tables, now, ops, faults, mqttVars>>

\* DROP TABLE IF EXISTS topic_<name>
DeleteDrop(p) ==
  /\ pc[p] = "dt_drop"
  /\ LET t == getTopicTableName(loc[p].topic) IN
     tables' = [u \in DOMAIN tables \ {t} |-> tables[u]]
  /\ Finish(p, Ok(0), 1)
  /\ UNCHANGED <<topics, now, ops, faults, mqttVars>>

(***************************************************************************)
(* Statement failures other than the ones the state decides (a lost        *)
(* connection, a lock timeout, a full disk).                               *)
(***************************************************************************)
InsertStatements == {"sm_insert_d", "sm_insert_g", "sm_h_insert"}
FacadeStatements ==
  {"sm_lookup", "sm_schema", "sm_h_schema", "gm_lookup", "gm_schema", "gm_query",
   "at_upsert", "dt_lookup", "dt_delete", "dt_drop", "rt_get"} \cup InsertStatements
CreateStatements == {"ct_schema", "ct_create", "ct_index"}
RetentionStatements == {"mr_size", "mr_count", "mr_delete"}

\* the statement p is about to run fails with an error that is not 42P01:
\* operations let it through (finally releases the clients held),
\* manageTableRetention catches it and returns 0, and a failed VACUUM FULL is
\* only logged
StatementFails(p) ==
  /\ faults < MaxFaults
  /\ faults' = faults + 1
  /\ pc[p] \in FacadeStatements \cup CreateStatements \cup RetentionStatements
                \cup {"mr_vacuum"}
  /\ IF pc[p] \in FacadeStatements
     THEN /\ pc' = [pc EXCEPT ![p] = "done"]
          /\ loc' = [loc EXCEPT ![p].res = Err("StorageError"),
                                ![p].attempts = IF pc[p] \in InsertStatements
                                                THEN @ + 1 ELSE @]
          /\ inUse' = inUse - 1
     ELSE IF pc[p] \in CreateStatements
     THEN Finish(p, Err("StorageError"), 2)
     ELSE IF pc[p] \in RetentionStatements
     THEN RetentionReturn(p, 0)
     ELSE RetentionReturn(p, loc[p].deleted)
  /\ UNCHANGED <<topics, tables, now, ops, mqttVars>>

(***************************************************************************)
(* Specification: callers issue any operations concurrently.               *)
(***************************************************************************)
Next ==
  \E p \in Procs :
    \/ StartStoreMessage(p) \/ StartGetMessages(p) \/ StartAddTopic(p)
    \/ StartDeleteTopic(p) \/ StartDeleteRoute(p)
    \/ Connect(p) \/ ConnectTimeout(p) \/ Return(p)
    \/ StoreLookup(p) \/ StoreSchema(p) \/ StoreInsertDedicated(p)
    \/ StoreInsertGeneric(p) \/ StoreHealSchema(p) \/ StoreHealInsert(p)
    \/ CreateConnect(p) \/ CreateConnectTimeout(p) \/ CreateSchema(p)
    \/ CreateTable(p) \/ CreateIndex(p)
    \/ RetentionConnect(p) \/ RetentionConnectTimeout(p) \/ RetentionSize(p)
    \/ RetentionCount(p) \/ RetentionDelete(p) \/ RetentionVacuum(p)
    \/ FetchLookup(p) \/ FetchSchema(p) \/ FetchQuery(p)
    \/ AddUpsert(p)
    \/ RouteConnect(p) \/ RouteConnectTimeout(p) \/ RouteGetTopic(p)
    \/ DeleteLookup(p) \/ DeleteRegistry(p) \/ DeleteDrop(p)
    \/ StatementFails(p)

Spec == Init /\ [][Next]_vars

(***************************************************************************)
(* Specifications of parts of the program.  Each starts in a state the     *)
(* program reaches by createTopic calls: TopicA registered with a          *)
(* dedicated table that exists and is empty, TopicB registered on the      *)
(* generic table.                                                          *)
(***************************************************************************)
TopicA == <<"a", "/", "b">>
TopicB == <<"a", "_", "b">>

InitRegistered ==
  /\ topics = (TopicA :> [schema |-> Jsonb(S1), use_dedicated_table |-> TRUE,
                          created_at |-> 1])
                @@ (TopicB :> [schema |-> Jsonb(S1), use_dedicated_table |-> FALSE,
                               created_at |-> 1])
  /\ tables = (Messages :> EmptyTable)
                @@ (getTopicTableName(TopicA) :> TopicTable(generateColumnsFromSchema(S1)))
  /\ now = 1
  /\ inUse = 0
  /\ pc = [p \in Procs |-> "idle"]
  /\ loc = [p \in Procs |-> Idle]
  /\ ops = 0
  /\ faults = 0
  /\ NoSubscriptions

\* the statements of storeMessage and of the retention pass it calls, when
\* the table exists and no statement fails
PutSteps(p) ==
  \/ Connect(p) \/ Return(p)
  \/ StoreLookup(p) \/ StoreSchema(p) \/ StoreInsertDedicated(p)
  \/ RetentionConnect(p) \/ RetentionSize(p)
  \/ RetentionCount(p) \/ RetentionDelete(p) \/ RetentionVacuum(p)

\* rows of 1 KB and of 12 KB
SeqSizes == {1, 12}

\* SpecSeq: one caller puts to TopicA, one put after the other
StartSeqPut(p) == IssueStoreMessage(p, {TopicA}, SeqSizes, MaxSeqPuts)

NextSeq == StartSeqPut(1) \/ PutSteps(1)

SpecSeq == InitRegistered /\ [][NextSeq]_vars

\* SpecPuts: the callers put concurrently to TopicA and TopicB
StartPut(p) == IssueStoreMessage(p, Names, Sizes, MaxPuts)

NextPuts ==
  \E p \in Procs :
    \/ StartPut(p) \/ PutSteps(p) \/ StoreInsertGeneric(p)
    \/ RetentionConnectTimeout(p) \/ ConnectTimeout(p)

SpecPuts == InitRegistered /\ [][NextPuts]_vars

\* SpecFetch: caller 1 puts rows of 1 KB, all callers fetch
StartFetchPut(p) == IssueStoreMessage(p, Names, {1}, MaxFetchOps)
StartFetch(p) == IssueGetMessages(p, MaxFetchOps)

NextFetch ==
  \/ StartFetchPut(1)
  \/ \E p \in Procs :
       \/ StartFetch(p) \/ Connect(p) \/ Return(p)
       \/ StoreLookup(p) \/ StoreSchema(p) \/ StoreInsertDedicated(p)
       \/ StoreInsertGeneric(p) \/ RetentionConnect(p) \/ RetentionSize(p)
       \/ FetchLookup(p) \/ FetchSchema(p) \/ FetchQuery(p)

SpecFetch == InitRegistered /\ [][NextFetch]_vars

\* topicSchema.validate(req.body): name is a string of 1 to 255 characters,
\* schema is an object (of any number of keys)
topicSchemaValid(name, schema) == Len(name) >= 1 /\ Len(name) <= 255

\* the names and schemas clients send to POST /api/topics
RouteNames == Names \cup { <<>> }
RouteSchemas == { <<>>, S1, S2 }

\* POST /api/topics: 400 when the body fails validation, else addTopic; the
\* subscription that follows changes no state of the database
StartCreateRoute(p, max) ==
  /\ pc[p] = "idle" /\ ops < max
  /\ \E t \in RouteNames, sc \in RouteSchemas, d \in BOOLEAN :
       /\ loc' = [loc EXCEPT ![p] =
                    [Idle EXCEPT !.op = "addTopic", !.topic = t, !.schema = sc,
                                 !.ded = d,
                                 !.res = IF topicSchemaValid(t, sc)
                                         THEN Idle.res
                                         ELSE Err("ValidationError")]]
       /\ Goto(p, IF topicSchemaValid(t, sc) THEN "connect" ELSE "done")
  /\ ops' = ops + 1
  /\ UNCHANGED <<topics, tables, now, inUse, faults, mqttVars>>

\* SpecRegistry: one caller creates, re-registers and deletes topics, puts rows
\* of 1 KB and fetches, one operation after the other, starting with an empty
\* registry
StartRegistryPut(p) == IssueStoreMessage(p, Names, {1}, MaxRegistryOps)
StartRegistryFetch(p) == IssueGetMessages(p, MaxRegistryOps)
StartRegistryDelete(p) == IssueDeleteTopic(p, MaxRegistryOps)

NextRegistry ==
  \/ StartCreateRoute(1, MaxRegistryOps) \/ StartRegistryPut(1)
  \/ StartRegistryFetch(1) \/ StartRegistryDelete(1)
  \/ Connect(1) \/ Return(1)
  \/ StoreLookup(1) \/ StoreSchema(1) \/ StoreInsertDedicated(1)
  \/ StoreInsertGeneric(1) \/ StoreHealSchema(1) \/ StoreHealInsert(1)
  \/ CreateConnect(1) \/ CreateSchema(1) \/ CreateTable(1) \/ CreateIndex(1)
  \/ RetentionConnect(1) \/ RetentionSize(1)
  \/ FetchLookup(1) \/ FetchSchema(1) \/ FetchQuery(1)
  \/ AddUpsert(1)
  \/ DeleteLookup(1) \/ DeleteRegistry(1) \/ DeleteDrop(1)

SpecRegistry == Init /\ [][NextRegistry]_vars

\* SpecRace: TopicB is registered as dedicated and its table is missing (the
\* state after its createTopicTable failed, or after deleteTopic of TopicA
\* dropped the table both names map to); the callers put to it and register
\* it again, concurrently, on a pool that never runs out
InitUnitMissing ==
  /\ topics = (TopicB :> [schema |-> Jsonb(S1), use_dedicated_table |-> TRUE,
                          created_at |-> 1])
  /\ tables = (Messages :> EmptyTable)
  /\ now = 1
  /\ inUse = 0
  /\ pc = [p \in Procs |-> "idle"]
  /\ loc = [p \in Procs |-> Idle]
  /\ ops = 0
  /\ faults = 0
  /\ NoSubscriptions

StartRacePut(p) == IssueStoreMessage(p, {TopicB}, {1}, MaxRaceOps)
StartRaceCreate(p) == IssueAddTopic(p, {TopicB}, {S1}, MaxRaceOps)

NextRace ==
  \E p \in Procs :
    \/ StartRacePut(p) \/ StartRaceCreate(p)
    \/ ConnectWithin(p, RacePool) \/ Return(p)
    \/ StoreLookup(p) \/ StoreSchema(p) \/ StoreInsertDedicated(p)
    \/ StoreInsertGeneric(p) \/ StoreHealSchema(p) \/ StoreHealInsert(p)
    \/ CreateConnectWithin(p, RacePool) \/ CreateSchema(p)
    \/ CreateTable(p) \/ CreateIndex(p)
    \/ RetentionConnectWithin(p, RacePool) \/ RetentionSize(p)
    \/ AddUpsert(p)

SpecRace == InitUnitMissing /\ [][NextRace]_vars

\* SpecRetention: the callers put rows of any size to TopicA concurrently, on
\* a pool that lets both hold the two clients of a put in its retention
\* pass, and one statement may fail
StartRetentionPut(p) == IssueStoreMessage(p, {TopicA}, Sizes, MaxRetentionOps)

NextRetention ==
  \E p \in Procs :
    \/ StartRetentionPut(p) \/ ConnectWithin(p, RacePool) \/ Return(p)
    \/ StoreLookup(p) \/ StoreSchema(p) \/ StoreInsertDedicated(p)
    \/ RetentionConnectWithin(p, RacePool) \/ RetentionSize(p)
    \/ RetentionCount(p) \/ RetentionDelete(p) \/ RetentionVacuum(p)
    \/ StatementFails(p)

SpecRetention == InitRegistered /\ [][NextRetention]_vars

\* SpecShared: both topics are registered on the generic table; the table
\* topic_a_b of an earlier dedicated registration of a/b is still there with
\* the row it got then.  The callers put concurrently to both topics.
InitShared ==
  /\ topics = [n \in Names |-> [schema |-> Jsonb(S1), use_dedicated_table |-> FALSE,
                                created_at |-> 1]]
  /\ tables = (Messages :> EmptyTable)
                @@ (getTopicTableName(TopicA) :>
                      [TopicTable(generateColumnsFromSchema(S1))
                         EXCEPT !.rows = {[id |-> 1, received_at |-> 1, size |-> 1]},
                                !.seq = 2])
  /\ now = 1
  /\ inUse = 0
  /\ pc = [p \in Procs |-> "idle"]
  /\ loc = [p \in Procs |-> Idle]
  /\ ops = 0
  /\ faults = 0
  /\ NoSubscriptions

\* rows of 12 KB and of 24 KB
SharedSizes == {12, 24}

StartSharedPut(p) == IssueStoreMessage(p, Names, SharedSizes, MaxSharedOps)

NextShared ==
  \E p \in Procs :
    \/ StartSharedPut(p) \/ ConnectWithin(p, RacePool) \/ Return(p)
    \/ StoreLookup(p) \/ StoreInsertGeneric(p)
    \/ RetentionConnectWithin(p, RacePool) \/ RetentionSize(p)
    \/ RetentionCount(p) \/ RetentionDelete(p) \/ RetentionVacuum(p)
    \/ StatementFails(p)

SpecShared == InitShared /\ [][NextShared]_vars

\* SpecLifecycle: the callers create and delete topics concurrently, starting
\* with an empty registry; the pool has a connection for every acquisition
StartLifecycleCreate(p) == IssueAddTopic(p, {TopicA}, {S1}, MaxLifecycleOps)
StartLifecycleDelete(p) == IssueDeleteTopic(p, MaxLifecycleOps)

NextLifecycle ==
  \E p \in Procs :
    \/ StartLifecycleCreate(p) \/ StartLifecycleDelete(p)
    \/ ConnectWithin(p, RacePool) \/ Return(p)
    \/ AddUpsert(p)
    \/ CreateConnectWithin(p, RacePool) \/ CreateSchema(p)
    \/ CreateTable(p) \/ CreateIndex(p)
    \/ DeleteLookup(p) \/ DeleteRegistry(p) \/ DeleteDrop(p)

SpecLifecycle == Init /\ [][NextLifecycle]_vars

(***************************************************************************)
(* The column codec of dedicated tables: mapPayloadToColumns on the way    *)
(* in, the reconstruction loop of getMessages on the way out.              *)
(***************************************************************************)
\* JS values: js is the kind of value, v its content, by the conversion that
\* produced it ("none" for a value as the sender wrote it)
Undefined == [js |-> "undefined", v |-> "", by |-> "none"]
Null == [js |-> "null", v |-> "", by |-> "none"]
Zero == [js |-> "number", v |-> "0", by |-> "none"]
Seven == [js |-> "number", v |-> "7", by |-> "none"]
AnObject == [js |-> "object", v |-> "{a:1}", by |-> "none"]

\* the result of parseFloat, Boolean, new Date, JSON.stringify or String on x
Converted(by, x) == [x EXCEPT !.by = by]

\* payload[fieldName]
ValueOf(payload, name) == IF name \in DOMAIN payload THEN payload[name] ELSE Undefined

\* the switch of mapPayloadToColumns on fieldType
Conversion(t) ==
  CASE IsNested(t) -> "JSON.stringify"
    [] toLowerCase(t) \in {"number", "integer"} -> "parseFloat"
    [] toLowerCase(t) = "boolean"               -> "Boolean"
    [] toLowerCase(t) \in {"date", "timestamp"} -> "Date"
    [] toLowerCase(t) \in {"array", "object"}   -> "JSON.stringify"
    [] OTHER                                    -> "String"

\* value !== null && value !== undefined ? convert(value) : null
convertedValue(t, value) ==
  IF value \in {Null, Undefined} THEN Null ELSE Converted(Conversion(t), value)

\* mapPayloadToColumns without the null checks
mapPayloadToColumns_Unchecked(payload, schema) ==
  LET e == ObjectEntries(schema) IN
  [columns |-> [i \in 1..Len(e) |-> Sanitize(e[i].name)],
   values  |-> [i \in 1..Len(e) |->
                  Converted(Conversion(e[i].type), ValueOf(payload, e[i].name))]]

\* mapPayloadToColumns(payload, schema): { columns, values }
mapPayloadToColumns(payload, schema) ==
  LET e == ObjectEntries(schema) IN
  [columns |-> [i \in 1..Len(e) |-> Sanitize(e[i].name)],
   values  |-> [i \in 1..Len(e) |->
                  convertedValue(e[i].type, ValueOf(payload, e[i].name))]]

\* how the driver hands over a JSONB column: as JSON text, or as the value
\* its type parser made of that text
Drivers == {"text", "parsed"}

\* row[columnName] of the row an INSERT of m wrote: NULL reads as null, a
\* scalar column as the value written, a JSONB column as the driver hands it
RowValue(m, i, t, driver) ==
  IF m.values[i] = Null THEN Null
  ELSE IF pgType(t) = "JSONB" /\ driver = "parsed" THEN Converted("none", m.values[i])
  ELSE m.values[i]

\* the case analysis of the reconstruction loop: array, object, nested
IsStructured(t) == IsNested(t) \/ toLowerCase(t) \in {"array", "object"}

\* `value ?`: null, undefined and the number 0 are falsy
Falsy(x) == x \in {Null, Undefined, Zero}

\* JSON.parse(x) throws: x is no JSON text, and the text String(x) that
\* JSON.parse makes of an object ("[object Object]") is none either
ParseThrows(x) == x.by # "JSON.stringify" /\ x.js = "object"

\* JSON.parse(x) when it returns
JSONparse(x) == Converted("none", x)

\* the reconstruction of one row throws
DecodeThrows(m, schema, driver) ==
  LET e == ObjectEntries(schema) IN
  \E i \in DOMAIN e :
    /\ IsStructured(e[i].type)
    /\ ~Falsy(RowValue(m, i, e[i].type, driver))
    /\ ParseThrows(RowValue(m, i, e[i].type, driver))

\* the payload reconstructed from one row: fieldName -> value
DecodeRow(m, schema, driver) ==
  LET e == ObjectEntries(schema)
      at(n) == CHOOSE i \in DOMAIN e : e[i].name = n
  IN  [n \in { e[i].name : i \in DOMAIN e } |->
         LET x == RowValue(m, at(n), e[at(n)].type, driver) IN
         IF IsStructured(e[at(n)].type)
         THEN IF Falsy(x) THEN Null ELSE JSONparse(x)
         ELSE x]

\* result.rows.map(row => ...) of getMessages: an exception in the callback
\* ends the map and rejects getMessages
Reconstruct(rows, schema, driver) ==
  IF \E k \in DOMAIN rows : DecodeThrows(rows[k], schema, driver)
  THEN Err("SyntaxError")
  ELSE Ok([k \in DOMAIN rows |-> DecodeRow(rows[k], schema, driver)])

\* SpecCodec: every caller encodes one payload for the same schema; the rows
\* are then read back and decoded together
F1 == <<"t">>
F2 == <<"h", "-", "2">>
Extra == <<"_">>
FieldTypes ==
  {"number", "integer", "Number", "boolean", "date", "timestamp", "string",
   "array", "object", "Object", "uuid", "{}"}
CodecSchemas ==
  { <<Field(F1, t)>> : t \in FieldTypes }
    \cup { <<Field(F1, t), Field(F2, u)>> : t \in FieldTypes, u \in {"string", "object"} }
CodecValues == {Undefined, Null, Zero, Seven, AnObject}
CodecPayloads ==
  { [n \in K |-> f[n]] :
      f \in [{F1, F2, Extra} -> CodecValues \ {Undefined}],
      K \in SUBSET {F1, F2, Extra} }
OtherPayloads ==
  { [n \in {F1, F2} |-> Seven], [n \in {F1, F2} |-> AnObject] }

InitCodec ==
  /\ topics = <<>>
  /\ tables = (Messages :> EmptyTable)
  /\ now = 1
  /\ inUse = 0
  /\ pc = [p \in Procs |-> "encode"]
  /\ \E sc \in CodecSchemas, pl \in CodecPayloads, o \in OtherPayloads :
       loc = [p \in Procs |->
                [Idle EXCEPT !.op = "codec", !.schema = sc,
                             !.payload = IF p = 1 THEN pl ELSE o]]
  /\ ops = 0
  /\ faults = 0
  /\ NoSubscriptions

\* storeMessage: mapPayloadToColumns(payload, schema), then the INSERT
EncodeRow(p) ==
  /\ pc[p] = "encode"
  /\ loc' = [loc EXCEPT ![p].values = mapPayloadToColumns(loc[p].payload, loc[p].schema)]
  /\ Goto(p, "stored")
  /\ UNCHANGED <<topics, tables, now, inUse, ops, faults, mqttVars>>

\* the rows of all callers, in the order of a SELECT
StoredRows == [q \in Procs |-> loc[q].values]

\* getMessages: the SELECT over the rows written, then the reconstruction
DecodeRows(p) ==
  /\ pc[p] = "stored"
  /\ \A q \in Procs : pc[q] # "encode"
  /\ \E driver \in Drivers :
       loc' = [loc EXCEPT ![p].out = Reconstruct(StoredRows, loc[p].schema, driver),
                          ![p].driver = driver]
  /\ Goto(p, "decoded")
  /\ UNCHANGED <<topics, tables, now, inUse, ops, faults, mqttVars>>

NextCodec == \E p \in Procs : EncodeRow(p) \/ DecodeRows(p)

SpecCodec == InitCodec /\ [][NextCodec]_vars

(***************************************************************************)
(* generateCSV, the delimited-text rendering of GET .../messages?format=csv *)
(* Texts are sequences of characters and of words written as one element.  *)
(***************************************************************************)
\* a value of a fetched record: text is String(value), or JSON.stringify(value)
\* when typeof value === 'object'
CsvNull == [js |-> "null", text |-> <<>>]
CsvValues ==
  { CsvNull,
    [js |-> "number", text |-> <<"7">>],
    [js |-> "boolean", text |-> <<"true">>],
    [js |-> "string", text |-> <<"a", ",", "b">>],
    [js |-> "string", text |-> <<"q", "\"">>],
    [js |-> "string", text |-> <<"l", "\n">>],
    [js |-> "object", text |-> <<"{", "\"", "a", "\"", ":", "1", "}">>] }

\* csvValue.replace(/"/g, '""')
RECURSIVE DoubleQuotes(_)
DoubleQuotes(t) ==
  IF t = <<>> THEN <<>>
  ELSE (IF Head(t) = "\"" THEN <<"\"", "\"">> ELSE <<Head(t)>>) \o DoubleQuotes(Tail(t))

\* csvValue.includes(',') || csvValue.includes('"') || csvValue.includes('\n')
NeedsQuotes(t) == \E i \in DOMAIN t : t[i] \in {",", "\"", "\n"}

\* the cell generateCSV makes of message[fieldName]
csvValue(value) ==
  IF value.js \in {"null", "undefined"} THEN <<>>
  ELSE IF NeedsQuotes(value.text)
       THEN <<"\"">> \o DoubleQuotes(value.text) \o <<"\"">>
       ELSE value.text

\* cells.join(',')
RECURSIVE Join(_)
Join(cells) ==
  IF cells = <<>> THEN <<>>
  ELSE IF Len(cells) = 1 THEN cells[1]
  ELSE cells[1] \o <<",">> \o Join(Tail(cells))

\* Object.keys(schema)
ObjectKeys(schema) == [i \in 1..Len(schema) |-> ObjectEntries(schema)[i].name]

\* the line generateCSV adds for one message
CsvRow(message, fieldNames) ==
  Join(<< (IF message.id = <<>> THEN <<"N/A">> ELSE message.id),
          message.received_at >>
       \o [i \in 1..Len(fieldNames) |-> csvValue(message.fields[fieldNames[i]])])
    \o <<"\n">>

RECURSIVE CsvRows(_, _)
CsvRows(messages, fieldNames) ==
  IF messages = <<>> THEN <<>>
  ELSE CsvRow(Head(messages), fieldNames) \o CsvRows(Tail(messages), fieldNames)

\* generateCSV(messages, schema, useDedicatedTable)
generateCSV(messages, schema) ==
  IF Len(messages) = 0 THEN <<>>
  ELSE Join(<< <<"id">>, <<"received_at">> >> \o ObjectKeys(schema)) \o <<"\n">>
         \o CsvRows(messages, ObjectKeys(schema))

\* SpecCsv: a topic is created with a schema, its records are fetched, and
\* each caller downloads them as CSV
CsvSchemas ==
  { << Field(<<"t">>, "string") >>,
    << Field(<<"t">>, "string"), Field(<<"h">>, "string") >>,
    << Field(<<"h">>, "string"), Field(<<"t">>, "string") >>,
    << Field(<<"2">>, "string"), Field(<<"1">>, "string") >>,
    << Field(<<"t", ",", "h">>, "string") >> }
CsvMessage(i, f) == [id |-> <<i>>, received_at |-> <<"T", i>>, fields |-> f]
CsvMessages(schema) ==
  LET names == { schema[i].name : i \in DOMAIN schema } IN
  { <<>> }
    \cup { << CsvMessage("1", f) >> : f \in [names -> CsvValues] }
    \cup { << CsvMessage("1", f), CsvMessage("2", [n \in names |-> v]) >> :
             f \in [names -> CsvValues],
             v \in { [js |-> "number", text |-> <<"7">>],
                     [js |-> "string", text |-> <<"q", "\"">>] } }

InitCsv ==
  /\ topics = <<>>
  /\ tables = (Messages :> EmptyTable)
  /\ now = 1
  /\ inUse = 0
  /\ pc = [p \in Procs |-> "render"]
  /\ \E sc \in CsvSchemas : \E ms \in CsvMessages(sc) :
       loc = [p \in Procs |-> [Idle EXCEPT !.op = "csv", !.schema = sc, !.out = Ok(ms)]]
  /\ ops = 0
  /\ faults = 0
  /\ NoSubscriptions

\* router.get('/*/messages') with format=csv: generateCSV(messages,
\* topic.schema, ...), topic.schema being the schema as the registry holds it
RenderCsv(p) ==
  /\ pc[p] = "render"
  /\ loc' = [loc EXCEPT ![p].csv = generateCSV(loc[p].out.value, Jsonb(loc[p].schema))]
  /\ Goto(p, "rendered")
  /\ UNCHANGED <<topics, tables, now, inUse, ops, faults, mqttVars>>

\* the response is sent and the handler ends
SendCsv(p) ==
  /\ pc[p] = "rendered"
  /\ Goto(p, "sent")
  /\ UNCHANGED <<topics, tables, now, inUse, loc, ops, faults, mqttVars>>

NextCsv == \E p \in Procs : RenderCsv(p) \/ SendCsv(p)

SpecCsv == InitCsv /\ [][NextCsv]_vars

(***************************************************************************)
(* Ingestion: MqttServiceImpl (mqttService.ts) subscribes to the topics    *)
(* that POST /api/topics registers, and handleMessage stores the messages  *)
(* the broker delivers.                                                    *)
(***************************************************************************)
\* convertSchemaToJoi: the Joi type of a field type
joiType(t) ==
  CASE IsNested(t) -> "object"
    [] toLowerCase(t) = "string"                -> "string"
    [] toLowerCase(t) \in {"number", "integer"} -> "number"
    [] toLowerCase(t) = "boolean"               -> "boolean"
    [] toLowerCase(t) \in {"date", "timestamp"} -> "date"
    [] toLowerCase(t) = "array"                 -> "array"
    [] toLowerCase(t) = "object"                -> "object"
    [] OTHER                                    -> "any"

\* convertSchemaToJoi(schema): Joi.object({ fieldName: Joi.<type>() ... })
convertSchemaToJoi(schema) ==
  [n \in { schema[i].name : i \in DOMAIN schema } |->
     joiType(schema[CHOOSE i \in DOMAIN schema : schema[i].name = n].type)]

\* Joi.<type>().validate(value) reports no error
JoiValid(value, type) == type = "any" \/ value.js = type

\* schema.validate(payload) reports no error: no key outside the schema (Joi
\* objects do not allow unknown keys), every value of its field's type; no
\* key is required
Validates(joiSchema, payload) ==
  \A k \in DOMAIN payload :
    k \in DOMAIN joiSchema /\ JoiValid(payload[k], joiSchema[k])

\* what the broker delivers: a text that is no JSON, or the JSON text of a payload
NotJson == [json |-> FALSE, payload |-> <<>>]
IngestPayloads ==
  { (<<"t">> :> Seven),
    (<<"t">> :> Seven) @@ (<<"h">> :> Seven),
    (<<"t">> :> AnObject) }
BrokerMessages == { NotJson } \cup { [json |-> TRUE, payload |-> pl] : pl \in IngestPayloads }

\* operations started in one behaviour of SpecIngest
MaxIngestOps == 4

\* POST /api/topics with a valid body: database.addTopic(name, schema, ...)
StartIngestCreate(p) == IssueAddTopic(p, {TopicB}, {S1, S2}, MaxIngestOps)

\* POST /api/topics after addTopic has returned: subscribeToTopic converts the
\* schema, sends SUBSCRIBE with a callback, and the route answers 201
RouteSubscribe(p) ==
  /\ pc[p] = "done" /\ loc[p].op = "addTopic" /\ loc[p].res.kind = "ok"
  /\ client' = [client EXCEPT
                  !.subscriptions = @ \cup {loc[p].topic},
                  !.callbacks = Append(@, [topic |-> loc[p].topic,
                                           schema |-> convertSchemaToJoi(loc[p].schema)])]
  /\ pc' = [pc EXCEPT ![p] = "idle"]
  /\ loc' = [loc EXCEPT ![p] = Idle]
  /\ UNCHANGED <<topics, tables, now, inUse, ops, faults, subscribedTopics,
                 isConnected, session>>

\* the SUBACK of the oldest pending SUBSCRIBE arrives: its callback runs
\* this.subscribedTopics.set(topicName, joiSchema)
SubscribeCallback ==
  /\ client.callbacks # <<>>
  /\ subscribedTopics' =
       [n \in DOMAIN subscribedTopics \cup {Head(client.callbacks).topic} |->
          IF n = Head(client.callbacks).topic
          THEN Head(client.callbacks).schema ELSE subscribedTopics[n]]
  /\ client' = [client EXCEPT !.callbacks = Tail(@)]
  /\ UNCHANGED <<topics, tables, now, inUse, pc, loc, ops, faults, isConnected, session>>

\* client.on('message'): handleMessage(topic, message) for a message of a
\* topic the client has subscribed to.  A text that JSON.parse rejects, and a
\* payload that the schema of subscribedTopics rejects, is logged and dropped;
\* else storeMessageInDatabase calls database.storeMessage.  loc.schema notes
\* the schema the registry holds for the topic at this moment.
handleMessage(p, topic, message) ==
  /\ pc[p] = "idle" /\ ops < MaxIngestOps
  /\ topic \in client.subscriptions
  /\ ops' = ops + 1
  /\ IF \/ ~message.json
        \/ /\ topic \in DOMAIN subscribedTopics
           /\ ~Validates(subscribedTopics[topic], message.payload)
     THEN UNCHANGED <<pc, loc>>
     ELSE /\ loc' = [loc EXCEPT ![p] =
                       [Idle EXCEPT !.op = "storeMessage", !.topic = topic,
                                    !.size = 1, !.payload = message.payload,
                                    !.schema = IF topic \in DOMAIN topics
                                               THEN topics[topic].schema ELSE <<>>]]
          /\ Goto(p, "connect")
  /\ UNCHANGED <<topics, tables, now, inUse, faults, mqttVars>>

\* a response other than the 201 of POST /api/topics, or the end of
\* storeMessageInDatabase
IngestReturn(p) ==
  /\ ~(loc[p].op = "addTopic" /\ loc[p].res.kind = "ok")
  /\ Return(p)

\* SpecIngest: TopicB is registered and registered again through the route
\* while the broker delivers messages for it
NextIngest ==
  \/ SubscribeCallback
  \/ \E p \in Procs :
       \/ StartIngestCreate(p) \/ RouteSubscribe(p) \/ IngestReturn(p)
       \/ \E m \in BrokerMessages : handleMessage(p, TopicB, m)
       \/ Connect(p) \/ AddUpsert(p)
       \/ CreateConnect(p) \/ CreateSchema(p) \/ CreateTable(p) \/ CreateIndex(p)
       \/ StoreLookup(p) \/ StoreSchema(p) \/ StoreInsertDedicated(p)
       \/ StoreInsertGeneric(p)
       \/ RetentionConnect(p) \/ RetentionSize(p)

SpecIngest == Init /\ [][NextIngest]_vars

(***************************************************************************)
(* The MQTT session: subscribe and unsubscribe calls, the acknowledgements *)
(* of the broker and the connection events of the client.  The client      *)
(* exists (connect() has called mqtt.connect) and is not yet connected.    *)
(* A request handed to client.subscribe or client.unsubscribe waits in     *)
(* client.callbacks until the broker answers it; the client keeps the      *)
(* requests made while the connection is down and sends them, in order,    *)
(* when the connection is up again.                                        *)
(***************************************************************************)
\* calls and connection events in one behaviour of SpecMqtt
MaxMqttOps == 6

\* a pending request and the callback that waits for its answer
Request(kind, topic, schema) == [kind |-> kind, topic |-> topic, schema |-> schema]

\* subscribeToTopic(topicName, schema): the client exists, the schema is
\* converted and SUBSCRIBE is handed to the client with its callback; the
\* call returns without waiting for the answer
subscribeToTopic(topicName, schema) ==
  /\ ops < MaxMqttOps
  /\ ops' = ops + 1
  /\ client' = [client EXCEPT
                  !.callbacks = Append(@, Request("subscribe", topicName,
                                                  convertSchemaToJoi(schema)))]
  /\ UNCHANGED <<topics, tables, now, inUse, pc, loc, faults, subscribedTopics,
                 isConnected, session>>

\* unsubscribeFromTopic(topicName): UNSUBSCRIBE is handed to the client with
\* its callback
unsubscribeFromTopic(topicName) ==
  /\ ops < MaxMqttOps
  /\ ops' = ops + 1
  /\ client' = [client EXCEPT
                  !.callbacks = Append(@, Request("unsubscribe", topicName, <<>>))]
  /\ UNCHANGED <<topics, tables, now, inUse, pc, loc, faults, subscribedTopics,
                 isConnected, session>>

\* the loop of the 'connect' handler (resubscribeTopics in the earlier
\* service): one SUBSCRIBE for each topic of subscribedTopics, with a callback
\* that only logs.  The order is the one of the map's iteration.
resubscribeTopics ==
  LET D == DOMAIN subscribedTopics
      order == CHOOSE q \in [1..Cardinality(D) -> D] : \A t \in D : \E i \in DOMAIN q : q[i] = t
  IN  [i \in 1..Cardinality(D) |-> Request("resubscribe", order[i], subscribedTopics[order[i]])]

\* client.on('connect'): the connection is up; isConnected = true and every
\* topic of the map is subscribed again, behind the requests that wait
OnConnect ==
  /\ ops < MaxMqttOps /\ ~session.online
  /\ ops' = ops + 1
  /\ isConnected' = TRUE
  /\ client' = [client EXCEPT !.callbacks = @ \o resubscribeTopics]
  /\ session' = [session EXCEPT !.online = TRUE, !.event = "connect"]
  /\ UNCHANGED <<topics, tables, now, inUse, pc, loc, faults, subscribedTopics>>

\* client.on('error'): isConnected = false
OnError ==
  /\ ops < MaxMqttOps
  /\ ops' = ops + 1
  /\ isConnected' = FALSE
  /\ session' = [session EXCEPT !.event = "error"]
  /\ UNCHANGED <<topics, tables, now, inUse, pc, loc, faults, subscribedTopics, client>>

\* client.on('close'): isConnected = false.  The session is clean (clean:
\* true), so the broker forgets the subscriptions of the client.
OnClose ==
  /\ ops < MaxMqttOps
  /\ ops' = ops + 1
  /\ isConnected' = FALSE
  /\ client' = [client EXCEPT !.subscriptions = {}]
  /\ session' = [session EXCEPT !.online = FALSE, !.event = "close"]
  /\ UNCHANGED <<topics, tables, now, inUse, pc, loc, faults, subscribedTopics>>

\* client.on('reconnect'): the client starts a new attempt; the handler logs
OnReconnect ==
  /\ ops < MaxMqttOps /\ ~session.online
  /\ ops' = ops + 1
  /\ UNCHANGED <<topics, tables, now, inUse, pc, loc, faults, mqttVars>>

\* the broker answers the oldest pending request of the given kind without error
Answered(kind) ==
  /\ session.online
  /\ client.callbacks # <<>>
  /\ Head(client.callbacks).kind = kind

\* callback of subscribeToTopic, err empty: subscribedTopics.set(topicName, joiSchema)
OnSubscribed ==
  /\ Answered("subscribe")
  /\ LET r == Head(client.callbacks) IN
       /\ subscribedTopics' =
            [n \in DOMAIN subscribedTopics \cup {r.topic} |->
               IF n = r.topic THEN r.schema ELSE subscribedTopics[n]]
       /\ client' = [client EXCEPT !.callbacks = Tail(@),
                                   !.subscriptions = @ \cup {r.topic}]
       /\ session' = [session EXCEPT !.acked = @ \cup {r.topic}]
  /\ UNCHANGED <<topics, tables, now, inUse, pc, loc, ops, faults, isConnected>>

\* callback of unsubscribeFromTopic, err empty: subscribedTopics.delete(topicName)
OnUnsubscribed ==
  /\ Answered("unsubscribe")
  /\ LET r == Head(client.callbacks) IN
       /\ subscribedTopics' =
            [n \in DOMAIN subscribedTopics \ {r.topic} |-> subscribedTopics[n]]
       /\ client' = [client EXCEPT !.callbacks = Tail(@),
                                   !.subscriptions = @ \ {r.topic}]
       /\ session' = [session EXCEPT !.acked = @ \ {r.topic}]
  /\ UNCHANGED <<topics, tables, now, inUse, pc, loc, ops, faults, isConnected>>

\* callback of the 'connect' handler's subscribe, err empty: it logs
OnResubscribed ==
  /\ Answered("resubscribe")
  /\ LET r == Head(client.callbacks) IN
       /\ client' = [client EXCEPT !.callbacks = Tail(@),
                                   !.subscriptions = @ \cup {r.topic}]
       /\ session' = [session EXCEPT !.acked = @ \cup {r.topic}]
  /\ UNCHANGED <<topics, tables, now, inUse, pc, loc, ops, faults, subscribedTopics,
                 isConnected>>

\* a callback runs with err: it logs (and throws, in subscribeToTopic and
\* unsubscribeFromTopic); the map is left as it is
OnRequestError ==
  /\ client.callbacks # <<>>
  /\ client' = [client EXCEPT !.callbacks = Tail(@)]
  /\ UNCHANGED <<topics, tables, now, inUse, pc, loc, ops, faults, subscribedTopics,
                 isConnected, session>>

\* SpecMqtt: the two names are subscribed and unsubscribed while the
\* connection comes and goes
NextMqtt ==
  \/ \E n \in Names : subscribeToTopic(n, S1) \/ unsubscribeFromTopic(n)
  \/ OnConnect \/ OnError \/ OnClose \/ OnReconnect
  \/ OnSubscribed \/ OnUnsubscribed \/ OnResubscribed \/ OnRequestError

SpecMqtt == Init /\ [][NextMqtt]_vars

(***************************************************************************)
(* Properties.                                                             *)
(***************************************************************************)
IsPut(p) == loc[p].op = "storeMessage"
IsFetch(p) == loc[p].op = "getMessages"
IsDelete(p) == loc[p].op \in {"deleteTopic", "deleteRoute"}
Done(p) == pc[p] = "done"
Succeeded(p) == Done(p) /\ loc[p].res.kind = "ok"
Failed(p) == Done(p) /\ loc[p].res.kind = "error"

\* the row that the put of p inserted is in its table
RowStored(p) ==
  /\ loc[p].id # 0
  /\ loc[p].unit \in DOMAIN tables
  /\ \E r \in tables[loc[p].unit].rows : r.id = loc[p].id

\* C1: a put has no partial outcome: it returns the id of the one record it
\* committed, or it reports an error and no record of it is stored.
C1_PutAllOrNothing ==
  \A p \in Procs :
    (Done(p) /\ IsPut(p)) =>
      \/ Succeeded(p) /\ loc[p].id # 0 /\ loc[p].res.value = loc[p].id
      \/ Failed(p) /\ ~RowStored(p)

\* C2: when put or fetch looks up a topic that has no registry entry, the
\* operation ends there with NotFound and neither the registry nor any table
\* changes.
C2_UnknownTopicNotFound ==
  [][\A p \in Procs :
       ( /\ pc[p] \in {"sm_lookup", "gm_lookup"}
         /\ loc[p].topic \notin DOMAIN topics
         /\ pc'[p] # pc[p]
         /\ faults' = faults )
       => ( /\ pc'[p] = "done"
            /\ loc'[p].res = Err("NotFound")
            /\ loc'[p].attempts = 0 /\ loc'[p].creates = 0
            /\ topics' = topics /\ tables' = tables )]_vars

\* a put and a fetch have both ended NotFound at their lookup
C2_Witness ==
  \E p, q \in Procs :
    /\ Done(p) /\ IsPut(p) /\ Done(q) /\ IsFetch(q)
    /\ loc[p].res = Err("NotFound") /\ loc[q].res = Err("NotFound")
    /\ ~loc[p].found /\ ~loc[q].found
    /\ loc[p].topic \notin DOMAIN topics /\ loc[q].topic \notin DOMAIN topics

\* C3: a put makes at most two INSERT attempts and calls createTopicTable at
\* most once; the second attempt is made only after that call, is made once
\* when the call returns and the topic is still registered, and its failure
\* reaches the caller.
C3_RetryOnce ==
  \A p \in Procs :
    IsPut(p) =>
      /\ loc[p].attempts <= 2 /\ loc[p].creates <= 1
      /\ loc[p].attempts = 2 => loc[p].creates = 1
      /\ loc[p].creates = 1 => loc[p].attempts >= 1
      /\ pc[p] \in {"ct_connect", "ct_schema", "ct_create", "ct_index",
                    "sm_h_schema", "sm_h_insert"}
           => loc[p].attempts = 1 /\ loc[p].creates = 1
      /\ (Succeeded(p) /\ loc[p].creates = 1) => loc[p].attempts = 2
      /\ (Done(p) /\ loc[p].creates = 1 /\ loc[p].id = 0) => Failed(p)

\* a put whose first INSERT found no table, which created the table and whose
\* retried INSERT failed as well
C3_Witness ==
  \E p \in Procs :
    /\ Failed(p) /\ IsPut(p)
    /\ loc[p].attempts = 2 /\ loc[p].creates = 1 /\ loc[p].id = 0

\* C4: the DELETE of a retention pass removes oldest rows first: a row that
\* it removes is preceded, in (received_at, id) order, only by rows it removes
\* too, so the rows it leaves are a suffix of that order.
C4_OldestFirst ==
  [][\A p \in Procs :
       ( /\ pc[p] = "mr_delete" /\ pc'[p] # "mr_delete"
         /\ loc[p].unit \in DOMAIN tables )
       => LET before == tables[loc[p].unit].rows
              after  == tables'[loc[p].unit].rows
          IN  /\ after \subseteq before
              /\ \A r \in before \ after : \A q \in before :
                   Before(q, r) => q \notin after]_vars

\* a retention pass has removed two rows and left a newer one
C4_Witness ==
  \E p \in Procs :
    /\ pc[p] = "mr_vacuum" /\ loc[p].deleted >= 2
    /\ loc[p].unit \in DOMAIN tables
    /\ tables[loc[p].unit].rows # {}

\* the size of the largest row of SpecSeq
LargestRow == CHOOSE m \in SeqSizes : \A x \in SeqSizes : x <= m

\* C5: after each sequential put and its retention pass, the footprint of
\* the table exceeds the maximum by at most the size of one row (here the
\* largest row that is ever put).
C5_FootprintBound ==
  pc[1] \in {"idle", "done"} =>
    Footprint(getTopicTableName(TopicA)) <= maxTableSizeKB + LargestRow

\* C6: the retention pass that a put triggers never removes the row that
\* this put inserted.
C6_NewestSurvives ==
  [][\A p \in Procs :
       ( /\ pc[p] = "mr_delete" /\ pc'[p] # "mr_delete"
         /\ loc[p].unit \in DOMAIN tables )
       => \A r \in tables[loc[p].unit].rows \ tables'[loc[p].unit].rows :
            r.id # loc[p].id]_vars

Reverse(s) == [i \in 1..Len(s) |-> s[Len(s) + 1 - i]]
Range(s) == { s[i] : i \in DOMAIN s }
NonDecreasing(s) ==
  \A i, j \in DOMAIN s : i < j => s[i].received_at <= s[j].received_at
NonIncreasing(s) ==
  \A i, j \in DOMAIN s : i < j => s[i].received_at >= s[j].received_at
DistinctTimes(S) ==
  \A r, q \in S : r # q => r.received_at # q.received_at

\* p and q have fetched the same topic over the same stored rows
SameRows(p, q) ==
  /\ p # q
  /\ Succeeded(p) /\ IsFetch(p) /\ Succeeded(q) /\ IsFetch(q)
  /\ loc[p].found /\ loc[q].found
  /\ loc[p].topic = loc[q].topic /\ loc[p].ded = loc[q].ded
  /\ loc[p].snap = loc[q].snap

\* p has fetched ascending and q descending, both without limit from offset 0
AscAndDesc(p, q) ==
  /\ SameRows(p, q)
  /\ loc[p].args = [limit |-> NoLimit, offset |-> 0, order |-> "asc"]
  /\ loc[q].args = [limit |-> NoLimit, offset |-> 0, order |-> "desc"]

\* C7 as stated: an ascending fetch is non-decreasing in received_at and the
\* descending fetch over the same rows is its exact reverse, also when rows
\* have equal received_at.
C7_DescIsExactReverse ==
  \A p, q \in Procs :
    AscAndDesc(p, q) =>
      /\ NonDecreasing(loc[p].res.value)
      /\ loc[q].res.value = Reverse(loc[p].res.value)

\* C7 as amended: an ascending fetch is non-decreasing and a descending fetch
\* non-increasing in received_at, both list every stored row once, and the
\* descending fetch is the exact reverse of the ascending one when the rows
\* have pairwise distinct received_at.
C7_OrderedBothWays ==
  \A p, q \in Procs :
    AscAndDesc(p, q) =>
      /\ NonDecreasing(loc[p].res.value)
      /\ NonIncreasing(loc[q].res.value)
      /\ Range(loc[p].res.value) = loc[p].snap
      /\ Range(loc[q].res.value) = loc[p].snap
      /\ Len(loc[p].res.value) = Cardinality(loc[p].snap)
      /\ Len(loc[q].res.value) = Cardinality(loc[p].snap)
      /\ DistinctTimes(loc[p].snap)
           => loc[q].res.value = Reverse(loc[p].res.value)

\* an ascending and a descending fetch over the same three rows, two of them
\* with equal received_at
C7_Witness ==
  \E p, q \in Procs :
    /\ AscAndDesc(p, q)
    /\ Cardinality(loc[p].snap) = 3
    /\ ~DistinctTimes(loc[p].snap)
    /\ \E r, u \in loc[p].snap : r.received_at # u.received_at

\* C8: the result of a fetch is determined by its arguments and the stored
\* rows (ties in received_at are broken by ascending id): two fetches with the
\* same arguments over the same rows return the same sequence, and the pages
\* (limit 1, offset 0) and (limit 1, offset 1) hold different records.
C8_FetchIsDetermined ==
  \A p, q \in Procs :
    SameRows(p, q) =>
      /\ loc[p].args = loc[q].args => loc[p].res.value = loc[q].res.value
      /\ ( /\ loc[p].args.order = loc[q].args.order
           /\ loc[p].args.limit = Limit(1) /\ loc[q].args.limit = Limit(1)
           /\ loc[p].args.offset = 0 /\ loc[q].args.offset = 1
           /\ Cardinality(loc[p].snap) >= 2 )
         => loc[p].res.value # loc[q].res.value

\* the number of records from position offset + 1 on, of which at most n
Remaining(total, offset) == IF total > offset THEN total - offset ELSE 0
AtMost(n, m) == IF n < m THEN n ELSE m

\* C9: a fetch without limit returns every stored row from offset on; a fetch
\* with limit L, 0 included, returns at most L records.
C9_LimitBoundsResult ==
  \A p \in Procs :
    (Succeeded(p) /\ IsFetch(p) /\ loc[p].found) =>
      LET total == Cardinality(loc[p].snap)
          a == loc[p].args
      IN  Len(loc[p].res.value) =
            IF a.limit.given
            THEN AtMost(a.limit.n, Remaining(total, a.offset))
            ELSE Remaining(total, a.offset)

\* C10: a deleteTopic that completes successfully found the topic: on a name
\* without registry entry it reports NotFound.
C10_DeleteAbsentNotFound ==
  \A p \in Procs :
    (Done(p) /\ IsDelete(p) /\ ~loc[p].found) => Failed(p)

\* C11: the registry entry of a topic outlives its dedicated table: every
\* dedicated table that exists belongs to a registered topic, in every state,
\* also between the statements of a deleteTopic and after one that failed.
C11_NoUnitWithoutTopic ==
  \A t \in DOMAIN tables \ {Messages} :
    \E n \in DOMAIN topics : getTopicTableName(n) = t

IsCreate(p) == loc[p].op = "addTopic"

\* the rows a fetch of topic n ranges over under the mode registered for n
StoredRecords(n) ==
  IF topics[n].use_dedicated_table
  THEN IF getTopicTableName(n) \in DOMAIN tables
       THEN tables[getTopicTableName(n)].rows ELSE {}
  ELSE { r \in tables[Messages].rows : r.topic_name = n }

\* C12: a deleteTopic that succeeded on a registered dedicated topic leaves
\* the name without registry entry, without table and without rows in
\* messages; a fetch of an unregistered name ends with NotFound; and a
\* createTopic with a valid schema on a name left that way succeeds and
\* registers a topic with zero stored records.
C12_DeleteThenCreateIsEmpty ==
  \A p \in Procs :
    /\ (Succeeded(p) /\ loc[p].op = "deleteTopic" /\ loc[p].found /\ loc[p].ded)
         => /\ Unused(loc[p].topic)
            /\ \A r \in tables[Messages].rows : r.topic_name # loc[p].topic
    /\ (Done(p) /\ IsFetch(p) /\ loc[p].topic \notin DOMAIN topics)
         => loc[p].res = Err("NotFound")
    /\ (Done(p) /\ IsCreate(p) /\ loc[p].fresh /\ loc[p].schema # <<>>)
         => /\ Succeeded(p)
            /\ loc[p].topic \in DOMAIN topics
            /\ StoredRecords(loc[p].topic) = {}
            /\ loc[p].ded => getTopicTableName(loc[p].topic) \in DOMAIN tables

\* a topic has been created again on a name that was dedicated, held a row in
\* its table (the only INSERT so far, which advanced the clock) and was deleted
C12_Witness ==
  \E p \in Procs :
    /\ Succeeded(p) /\ IsCreate(p) /\ loc[p].fresh /\ loc[p].ded
    /\ now = 2 /\ tables[Messages].seq = 1
    /\ tables[getTopicTableName(loc[p].topic)].seq = 1

\* the entries of a schema, as a set
Entries(schema) == { schema[i] : i \in DOMAIN schema }

\* C13: the registry maps each name to one entry; the upsert of createTopic
\* on a registered name sets that entry's fields and storage mode to the
\* values of the call and leaves its creation time, and every other entry,
\* as they were; on an unregistered name it adds one entry.
C13_UpsertInPlace ==
  [][\A p \in Procs :
       (pc[p] = "at_upsert" /\ pc'[p] # "at_upsert")
       => LET n == loc[p].topic IN
          /\ DOMAIN topics' = DOMAIN topics \cup {n}
          /\ Entries(topics'[n].schema) = Entries(loc[p].schema)
          /\ Len(topics'[n].schema) = Len(loc[p].schema)
          /\ topics'[n].use_dedicated_table = loc[p].ded
          /\ n \in DOMAIN topics => topics'[n].created_at = topics[n].created_at
          /\ \A m \in DOMAIN topics \ {n} : topics'[m] = topics[m]]_vars

\* createTopic has re-registered, with other fields and in the other mode, a
\* name whose entry was created at an earlier time
C13_Witness ==
  \E p \in Procs :
    /\ Succeeded(p) /\ IsCreate(p) /\ ~loc[p].fresh
    /\ loc[p].topic \in DOMAIN topics
    /\ topics[loc[p].topic].created_at < now
    /\ loc[p].schema = S2 /\ ~loc[p].ded
    /\ getTopicTableName(loc[p].topic) \in DOMAIN tables
    /\ tables[getTopicTableName(loc[p].topic)].cols = generateColumnsFromSchema(S1)

\* the rows of messages tagged with topic n
SharedRows(n) == { r \in tables[Messages].rows : r.topic_name = n }

\* C14: no statement of createTopic changes a stored row or drops a table; a
\* fetch returns rows of the backend of the registered mode only; and a put
\* stores its row in the backend of the mode registered when it is issued.
C14_ModeChangeKeepsRecords ==
  /\ [][\A p \in Procs :
          (IsCreate(p) /\ pc'[p] # pc[p])
          => \A t \in DOMAIN tables : t \in DOMAIN tables' /\ tables'[t] = tables[t]]_vars
  /\ [](\A p \in Procs :
          /\ (Succeeded(p) /\ IsFetch(p) /\ loc[p].found)
               => /\ loc[p].ded = topics[loc[p].topic].use_dedicated_table
                  /\ \A r \in Range(loc[p].res.value) :
                       IF loc[p].ded
                       THEN r \in tables[getTopicTableName(loc[p].topic)].rows
                       ELSE r \in SharedRows(loc[p].topic)
          /\ (Succeeded(p) /\ IsPut(p))
               => loc[p].unit = IF topics[loc[p].topic].use_dedicated_table
                                THEN getTopicTableName(loc[p].topic) ELSE Messages)

\* a topic was re-registered from shared to dedicated: the row put before
\* is still in messages, a row put afterwards is in the table, and a fetch
\* has returned the latter alone
C14_Witness ==
  \E p \in Procs :
    /\ Succeeded(p) /\ IsFetch(p) /\ loc[p].found /\ loc[p].ded
    /\ SharedRows(loc[p].topic) # {}
    /\ Len(loc[p].res.value) = 1
    /\ loc[p].args.limit = NoLimit /\ loc[p].args.offset = 0

\* C15: a createTopic with an empty name or an empty field schema ends with
\* a ValidationError before any statement runs, so no registered topic has an
\* empty name or an empty schema.
C15_EmptyRejected ==
  /\ \A p \in Procs :
       (IsCreate(p) /\ (loc[p].topic = <<>> \/ loc[p].schema = <<>>))
         => Done(p) /\ loc[p].res = Err("ValidationError")
  /\ \A n \in DOMAIN topics : n # <<>> /\ topics[n].schema # <<>>

FieldNamesOf(schema) == { schema[i].name : i \in DOMAIN schema }
Missing(payload, n) == ValueOf(payload, n) \in {Null, Undefined}

C18_DecodeErrorPerRecord ==
  \A p \in Procs :
    pc[p] = "decoded" =>
      /\ loc[p].out.kind = "ok"
      /\ Len(loc[p].out.value) = Len(StoredRows)
      /\ \A q \in DOMAIN StoredRows :
           ~DecodeThrows(StoredRows[q], loc[p].schema, loc[p].driver)
             => loc[p].out.value[q] = DecodeRow(StoredRows[q], loc[p].schema, loc[p].driver)

\* C19: a statement of put, fetch, createTopic or deleteTopic that fails ends
\* the operation with an error for the caller; so does the SELECT of a fetch on
\* a registered dedicated topic whose table is missing.
C19_FailuresReported ==
  [][\A p \in Procs :
       /\ ( /\ pc[p] \in FacadeStatements \cup CreateStatements
            /\ faults' = faults + 1 /\ pc'[p] # pc[p] )
          => (pc'[p] = "done" /\ loc'[p].res.kind = "error")
       /\ ( /\ pc[p] = "gm_query" /\ loc[p].ded
            /\ getTopicTableName(loc[p].topic) \notin DOMAIN tables
            /\ pc'[p] # pc[p] )
          => (pc'[p] = "done" /\ loc'[p].res.kind = "error")]_vars

\* the names of a schema in the order of its declaration
DeclaredNames(schema) == [i \in 1..Len(schema) |-> schema[i].name]

\* the rendering C20 describes: a header of id, received_at and the declared
\* field names, then one line per record
DeclaredRendering(messages, schema) ==
  Join(<< <<"id">>, <<"received_at">> >> \o DeclaredNames(schema)) \o <<"\n">>
    \o CsvRows(messages, DeclaredNames(schema))

\* C20: the CSV of a fetched sequence is the header id, received_at and the
\* schema fields in declaration order, followed by one line per record in
\* fetch order with the fields in that order, a value with a comma, a double
\* quote or a line break being quoted and its quotes doubled.  Stated for a
\* fetched sequence of at least one record.
C20_DeclaredColumns ==
  \A p \in Procs :
    pc[p] \in {"rendered", "sent"} /\ loc[p].out.value # <<>> =>
      loc[p].csv = DeclaredRendering(loc[p].out.value, loc[p].schema)

\* a CSV parser after RFC 4180 on the text t: cells end at a comma, lines at
\* a line break, a cell that opens with a double quote runs to the closing
\* quote, and two quotes inside it stand for one
RECURSIVE ParseFrom(_, _, _, _, _)
ParseFrom(t, quoted, cell, row, rows) ==
  IF t = <<>>
  THEN IF cell = <<>> /\ row = <<>> THEN rows ELSE Append(rows, Append(row, cell))
  ELSE IF quoted
  THEN IF Head(t) = "\""
       THEN IF Len(t) >= 2 /\ t[2] = "\""
            THEN ParseFrom(Tail(Tail(t)), TRUE, Append(cell, "\""), row, rows)
            ELSE ParseFrom(Tail(t), FALSE, cell, row, rows)
       ELSE ParseFrom(Tail(t), TRUE, Append(cell, Head(t)), row, rows)
  ELSE IF Head(t) = "\"" /\ cell = <<>>
  THEN ParseFrom(Tail(t), TRUE, cell, row, rows)
  ELSE IF Head(t) = ","
  THEN ParseFrom(Tail(t), FALSE, <<>>, Append(row, cell), rows)
  ELSE IF Head(t) = "\n"
  THEN ParseFrom(Tail(t), FALSE, <<>>, <<>>, Append(rows, Append(row, cell)))
  ELSE ParseFrom(Tail(t), FALSE, Append(cell, Head(t)), row, rows)

ParseCsv(t) == ParseFrom(t, FALSE, <<>>, <<>>, <<>>)

\* the values of the scalar kinds
IsScalar(value) == value.js \in {"number", "string", "boolean"}

\* the lines parsed from csv are a header and one line per record of
\* messages, each of two columns and one per schema field, and the cell under
\* the name of a field holds the text of the record's scalar value
RoundTrips(csv, messages, schema) ==
  LET lines == ParseCsv(csv) IN
  /\ Len(lines) = 1 + Len(messages)
  /\ \A k \in DOMAIN lines : Len(lines[k]) = 2 + Len(schema)
  /\ \A n \in { schema[j].name : j \in DOMAIN schema } :
       /\ \E i \in DOMAIN lines[1] : lines[1][i] = n
       /\ \A i \in DOMAIN lines[1], k \in DOMAIN messages :
            (lines[1][i] = n /\ IsScalar(messages[k].fields[n]))
              => lines[k + 1][i] = messages[k].fields[n].text

\* C21: parsing the CSV of a fetched sequence of at least one record gives
\* one line per record after the header, every line with one column per
\* schema field after id and received_at, and under each field name the
\* number, string or boolean the record holds for it.
C21_CsvRoundTrip ==
  \A p \in Procs :
    pc[p] \in {"rendered", "sent"} /\ loc[p].out.value # <<>> =>
      RoundTrips(loc[p].csv, loc[p].out.value, loc[p].schema)

\* C22: the footprint of a unit converges to the maximum or below: when a put
\* is issued with no other operation in flight on a unit whose footprint is
\* above the maximum, then after that put and its retention pass the footprint
\* is at or below the maximum.  (The pass read loc.F right after the INSERT
\* of a row of loc.size KB, so the put found the unit at loc.F - loc.size.)
C22_FootprintConverges ==
  ( /\ Succeeded(1) /\ IsPut(1)
    /\ loc[1].F - loc[1].size > maxTableSizeKB )
  => Footprint(loc[1].unit) <= maxTableSizeKB

\* C23: after a put has returned the id of the first row ever inserted into
\* the table of a dedicated topic, and no other row has been inserted since,
\* the SELECT of a fetch with limit 1, offset 0 and ascending order returns
\* exactly one record, the one of that put.
C23_PutThenFetchOne ==
  [][\A p, q \in Procs :
       ( /\ pc[q] = "gm_query" /\ pc'[q] = "done" /\ faults' = faults
         /\ loc[q].ded
         /\ Succeeded(p) /\ IsPut(p) /\ loc[p].topic = loc[q].topic
         /\ loc[p].unit = getTopicTableName(loc[q].topic) /\ loc[p].id = 1
         /\ loc[p].unit \in DOMAIN tables /\ tables[loc[p].unit].seq = 2
         /\ loc'[q].args = [limit |-> Limit(1), offset |-> 0, order |-> "asc"] )
       => ( /\ loc'[q].res.kind = "ok"
            /\ Len(loc'[q].res.value) = 1
            /\ loc'[q].res.value[1].id = loc[p].id )]_vars

\* C24: the DELETE of a deleteTopic that found the topic in shared mode
\* removes the topic's registry entry and its rows of messages, and nothing
\* else: messages and every other table stay, the rows of other topics and
\* the other registry entries are unchanged, and the operation succeeds.
C24_SharedDeleteFrame ==
  [][\A p \in Procs :
       (pc[p] = "dt_delete" /\ pc'[p] # pc[p] /\ ~loc[p].ded /\ faults' = faults)
       => LET n == loc[p].topic IN
          /\ DOMAIN topics' = DOMAIN topics \ {n}
          /\ \A m \in DOMAIN topics' : topics'[m] = topics[m]
          /\ DOMAIN tables' = DOMAIN tables
          /\ tables'[Messages].rows = { r \in tables[Messages].rows : r.topic_name # n }
          /\ tables'[Messages].seq = tables[Messages].seq
          /\ \A t \in DOMAIN tables \ {Messages} : tables'[t] = tables[t]
          /\ pc'[p] = "done" /\ loc'[p].res.kind = "ok"]_vars

\* a shared topic that held a row has been deleted, and the row of the other
\* topic is still in messages
C24_Witness ==
  \E p \in Procs :
    /\ Succeeded(p) /\ loc[p].op = "deleteTopic" /\ loc[p].found /\ ~loc[p].ded
    /\ tables[Messages].dead > 0
    /\ tables[Messages].rows # {}
    /\ DOMAIN topics # {}

\* the pooled clients the operation of p holds at its position: none before
\* its first connect and after its end, two inside createTopicTable and
\* manageTableRetention, one elsewhere
Held(p) ==
  IF pc[p] \in {"idle", "done", "connect", "rt_connect"} THEN 0
  ELSE IF pc[p] \in CreateStatements \cup RetentionStatements \cup {"mr_vacuum"} THEN 2
  ELSE 1

RECURSIVE HeldBy(_)
HeldBy(P) ==
  IF P = {} THEN 0
  ELSE LET p == CHOOSE x \in P : TRUE IN Held(p) + HeldBy(P \ {p})

\* C25: the clients checked out of the pool are the ones the operations in
\* flight hold, so none is checked out when every operation has ended,
\* whether with a result, with an error or by an early return; and an
\* operation that ends at a connect ends with an error for its caller.
C25_ConnectionsReleased ==
  /\ [](inUse = HeldBy(Procs))
  /\ []((\A p \in Procs : pc[p] \in {"idle", "done"}) => inUse = 0)
  /\ [][\A p \in Procs :
          ( /\ pc[p] \in {"connect", "ct_connect", "mr_connect", "rt_connect"}
            /\ pc'[p] = "done" )
          => loc'[p].res.kind = "error"]_vars

\* every operation has ended and no client is checked out, after a put whose
\* row was inserted failed at the connect of its retention pass and the
\* other caller's operation ended with an error too
C25_Witness ==
  /\ \A p \in Procs : Failed(p)
  /\ \E p \in Procs : IsPut(p) /\ loc[p].id # 0
  /\ inUse = 0

\* C26: a row is inserted for a message of the broker only if the payload of
\* the message validates against the schema that the registry held for its
\* topic when the message was received.
C26_StoredOnlyIfValid ==
  [][\A p \in Procs :
       (pc[p] \in InsertStatements /\ loc[p].id = 0 /\ loc'[p].id # 0)
       => Validates(convertSchemaToJoi(loc[p].schema), loc[p].payload)]_vars

\* the rows a fetch of topic m ranges over when the registry is tp and the
\* tables are tb
RecordsOf(tp, tb, m) ==
  IF tp[m].use_dedicated_table
  THEN IF getTopicTableName(m) \in DOMAIN tb
       THEN tb[getTopicTableName(m)].rows ELSE {}
  ELSE { r \in tb[Messages].rows : r.topic_name = m }

\* C27: the INSERT of a put goes to the unit of the mode the put read from
\* the registry: it adds one row to messages, tagged with the topic, or one
\* row to the topic's table; it changes no other table, and the records of
\* every other registered topic are the same after it.
C27_PutDispatch ==
  [][\A p \in Procs :
       (IsPut(p) /\ pc[p] \in InsertStatements /\ loc[p].id = 0 /\ loc'[p].id # 0)
       => LET n == loc[p].topic
              u == IF loc[p].ded THEN getTopicTableName(n) ELSE Messages
          IN
          /\ loc'[p].unit = u
          /\ DOMAIN tables' = DOMAIN tables
          /\ \A t \in DOMAIN tables \ {u} : tables'[t] = tables[t]
          /\ tables[u].rows \subseteq tables'[u].rows
          /\ Cardinality(tables'[u].rows) = Cardinality(tables[u].rows) + 1
          /\ \A r \in tables'[u].rows \ tables[u].rows :
               r.id = loc'[p].id /\ (u = Messages => r.topic_name = n)
          /\ \A m \in DOMAIN topics \ {n} :
               RecordsOf(topics', tables', m) = RecordsOf(topics, tables, m)]_vars

\* the retention pass of p ends at this step with 0 and changes no table
NoEviction(p) == pc'[p] = "done" /\ loc'[p].deleted = 0 /\ tables' = tables

\* C28: a retention pass that reads a footprint at or below the maximum, or
\* that counts 0 rows, ends there, returns 0 and changes nothing; and rows
\* leave a table only in the DELETE of a pass that had read a footprint
\* above the maximum.
C28_NoEvictionUnderMax ==
  [][/\ \A p \in Procs :
          ( /\ pc[p] = "mr_size" /\ pc'[p] # pc[p] /\ faults' = faults
            /\ loc[p].unit \in DOMAIN tables
            /\ Footprint(loc[p].unit) <= maxTableSizeKB )
          => NoEviction(p)
     /\ \A p \in Procs :
          ( /\ pc[p] = "mr_count" /\ pc'[p] # pc[p] /\ faults' = faults
            /\ loc[p].unit \in DOMAIN tables
            /\ tables[loc[p].unit].rows = {} )
          => NoEviction(p)
     /\ \A t \in DOMAIN tables :
          (t \in DOMAIN tables' /\ ~(tables[t].rows \subseteq tables'[t].rows))
          => \E p \in Procs :
               /\ pc[p] = "mr_delete" /\ pc'[p] # pc[p]
               /\ loc[p].unit = t /\ loc[p].F > maxTableSizeKB]_vars

\* one pass has evicted two rows; the pass of the other put, which had read
\* the footprint above the maximum before, then counted 0 rows and returned 0
C28_Witness ==
  \E p, q \in Procs :
    /\ faults = 0
    /\ Succeeded(p) /\ IsPut(p) /\ loc[p].F > maxTableSizeKB
    /\ loc[p].k = 0 /\ loc[p].deleted = 0
    /\ IsPut(q) /\ loc[q].deleted = 2

\* the smaller of two numbers
Min(a, b) == IF a <= b THEN a ELSE b

\* ceil(a / b) for a >= 0 and b > 0
CeilDiv(a, b) == (a + b - 1) \div b

\* min(n, ceil((F - 0.8 M) / (F / n))) for F > M and n > 0, with the quotient
\* written over integers: (F - 0.8 M) / (F / n) = (10 F - 8 M) n / (10 F)
StatedRows(F, n) ==
  Min(n, CeilDiv((10 * F - 8 * maxTableSizeKB) * n, 10 * F))

\* p runs its DELETE statement at this step (the statement does not fail)
DeleteStep(p) ==
  /\ pc[p] = "mr_delete" /\ pc'[p] # pc[p] /\ faults' = faults
  /\ loc[p].unit \in DOMAIN tables

\* the number of rows that leave the table of p's pass at this step
RowsRemoved(p) ==
  Cardinality(tables[loc[p].unit].rows) - Cardinality(tables'[loc[p].unit].rows)

\* all rows of the table t have one size, and no deleted row occupies space
SameSizeRows(t) ==
  /\ tables[t].dead = 0
  /\ \A r1, r2 \in tables[t].rows : r1.size = r2.size

\* no other caller is between its INSERT and the end of its pass
NoOtherWriter(p) == \A q \in Procs \ {p} : pc[q] \in {"idle", "done"}

RetentionLabels == {"mr_connect", "mr_size", "mr_count", "mr_delete", "mr_vacuum"}

\* C30: a failure in retention does not fail the put that triggered it: a put
\* whose retention pass ends, ends with the id of the record it committed;
\* when VACUUM FULL fails after the DELETE, the pass still reports the number
\* of rows deleted and no table changes (the deleted rows stay deleted).
C30_RetentionNeverFailsPut ==
  [][\A p \in Procs :
       /\ ( pc[p] \in RetentionLabels /\ pc'[p] = "done" )
          => /\ loc[p].id # 0
             /\ loc'[p].res = Ok(loc[p].id)
       /\ ( pc[p] = "mr_vacuum" /\ pc'[p] # pc[p] /\ faults' # faults )
          => /\ loc[p].deleted > 0
             /\ loc'[p].deleted = loc[p].deleted
             /\ tables' = tables]_vars

\* the type table as stated, on the lower-case spelling of the field type
StatedType(t) ==
  LET l == toLowerCase(t) IN
  IF t = "{}" \/ l = "array" \/ l = "object" THEN "JSONB"
  ELSE IF l = "string" THEN "TEXT"
  ELSE IF l = "number" \/ l = "integer" THEN "NUMERIC"
  ELSE IF l = "boolean" THEN "BOOLEAN"
  ELSE IF l = "date" \/ l = "timestamp" THEN "TIMESTAMP"
  ELSE "TEXT"

\* the conversion of encode that belongs to a physical type
ConversionOf(type) ==
  CASE type = "NUMERIC"   -> "parseFloat"
    [] type = "BOOLEAN"   -> "Boolean"
    [] type = "TIMESTAMP" -> "Date"
    [] type = "JSONB"     -> "JSON.stringify"
    [] OTHER              -> "String"

\* C31: the column type of every field is the one the type table states for
\* the lower-case spelling of its type (TEXT for an unrecognized type, never
\* an error); the value encode stores for a field that is present is the
\* result of the conversion of that column type; decode parses the value of
\* a field exactly when its column type is the structured one and hands
\* over the other values as read.
C31_TypeTable ==
  \A p \in Procs :
    LET e == ObjectEntries(loc[p].schema)
        cols == generateColumnsFromSchema(loc[p].schema)
    IN
    /\ Len(cols) = Len(e)
    /\ \A i \in DOMAIN e :
         /\ cols[i].type = StatedType(e[i].type)
         /\ pc[p] \in {"stored", "decoded"} =>
              LET x == loc[p].values.values[i] IN
              \/ x = Null /\ ValueOf(loc[p].payload, e[i].name) \in {Null, Undefined}
              \/ /\ x # Null
                 /\ x = Converted(ConversionOf(cols[i].type),
                                  ValueOf(loc[p].payload, e[i].name))
         /\ (pc[p] = "decoded" /\ loc[p].out.kind = "ok") =>
              \A k \in DOMAIN loc[p].out.value :
                LET x == RowValue(StoredRows[k], i, e[i].type, loc[p].driver)
                    y == loc[p].out.value[k][e[i].name]
                IN  IF cols[i].type = "JSONB"
                    THEN y = Null \/ (y.by = "none" /\ y.v = x.v /\ y.js = x.js)
                    ELSE y = x

\* rows of a schema with a field of type "Number" and a field of type
\* "object" have been encoded and decoded: the number was stored by
\* parseFloat, the object came back parsed
C31_Witness ==
  \E p \in Procs :
    LET e == ObjectEntries(loc[p].schema) IN
    /\ pc[p] = "decoded" /\ loc[p].out.kind = "ok"
    /\ Len(e) = 2
    /\ \E i, j \in DOMAIN e :
         /\ e[i].type = "Number" /\ e[j].type = "object"
         /\ loc[p].values.values[i].by = "parseFloat"
         /\ loc[p].values.values[j].by = "JSON.stringify"
         /\ loc[p].out.value[p][e[j].name].by = "none"
         /\ loc[p].out.value[p][e[j].name].js = "object"

\* p runs an INSERT that stores a row at this step
InsertStep(p) == pc[p] \in InsertStatements /\ pc'[p] = "mr_connect"

\* C32: within a unit, from its creation to its removal, every INSERT assigns
\* the next value of the unit's sequence: the id is greater than the id of
\* every row stored in the unit and of every row stored there before, evicted
\* or not, the sequence never goes back, and a put that succeeds returns the
\* id its INSERT assigned.
C32_IdsIncrease ==
  /\ [](\A t \in DOMAIN tables : \A r \in tables[t].rows : r.id < tables[t].seq)
  /\ [][/\ \A t \in DOMAIN tables \cap DOMAIN tables' :
             /\ tables'[t].seq >= tables[t].seq
             /\ \A r \in tables'[t].rows \ tables[t].rows :
                  /\ r.id = tables[t].seq
                  /\ tables'[t].seq = tables[t].seq + 1
                  /\ \A q \in tables[t].rows : q.id < r.id
                  /\ \E p \in Procs :
                       InsertStep(p) /\ loc'[p].unit = t /\ loc'[p].id = r.id
        /\ \A p \in Procs :
             ( IsPut(p) /\ pc[p] # "done" /\ pc'[p] = "done"
               /\ loc'[p].res.kind = "ok" )
             => loc'[p].res.value = loc[p].id /\ loc[p].id # 0]_vars

\* a put has returned an id above 1 from a unit whose row 1 was evicted
C32_Witness ==
  \E p \in Procs :
    /\ Succeeded(p) /\ IsPut(p) /\ loc[p].res.value > 1
    /\ loc[p].unit \in DOMAIN tables
    /\ tables[loc[p].unit].seq = loc[p].res.value + 1
    /\ tables[loc[p].unit].dead = 0
    /\ \E r \in tables[loc[p].unit].rows : r.id = loc[p].res.value
    /\ ~ \E r \in tables[loc[p].unit].rows : r.id = 1

\* C33: the self-heal path of put creates and writes only the unit the
\* registry selects for the topic: when the catch block of a put creates a
\* dedicated table, or its retried INSERT stores a row in one, the topic is
\* registered with use_dedicated_table = true.
C33_HealFollowsMode ==
  [][\A p \in Procs :
       ( /\ IsPut(p)
         /\ \/ pc[p] = "ct_create" /\ tables' # tables
            \/ pc[p] = "sm_h_insert" /\ pc'[p] = "mr_connect" )
       => /\ loc[p].topic \in DOMAIN topics
          /\ topics[loc[p].topic].use_dedicated_table]_vars

\* C34: distinct registered topics are backed by distinct units: the DROP
\* TABLE of a deleteTopic on one topic leaves the records of every other
\* registered topic as they were.
C34_DistinctUnits ==
  [][\A p \in Procs :
       (IsDelete(p) /\ pc[p] = "dt_drop" /\ pc'[p] # pc[p])
       => \A m \in DOMAIN topics' \ {loc[p].topic} :
            RecordsOf(topics', tables', m) = RecordsOf(topics, tables, m)]_vars

\* C35: when a put to a registered dedicated topic runs its INSERT on the
\* topic's existing table with the schema now registered, the columns of the
\* table are the sanitized field names of that schema, so the INSERT names no
\* column the table lacks.  Stated for a topic that shares its table with no
\* other registered topic and whose schema has a field.
C35_ColumnsFollowSchema ==
  [][\A p \in Procs :
       ( /\ IsPut(p) /\ pc[p] \in {"sm_insert_d", "sm_h_insert"}
         /\ pc'[p] # pc[p] /\ faults' = faults
         /\ loc[p].topic \in DOMAIN topics
         /\ topics[loc[p].topic].use_dedicated_table
         /\ topics[loc[p].topic].schema = loc[p].tschema
         /\ loc[p].tschema # <<>>
         /\ \A m \in DOMAIN topics \ {loc[p].topic} :
              getTopicTableName(m) # getTopicTableName(loc[p].topic)
         /\ getTopicTableName(loc[p].topic) \in DOMAIN tables )
       => /\ ColumnNames(tables[getTopicTableName(loc[p].topic)].cols)
               = ColumnNames(generateColumnsFromSchema(loc[p].tschema))
          /\ loc'[p].res.kind # "error"]_vars

\* C36: a createTopic that ends with an error leaves the registry as it was:
\* when its upsert had found the name unused, the name has no registry entry
\* and no table after the error.
C36_FailedCreateLeavesNothing ==
  \A p \in Procs :
    (Failed(p) /\ IsCreate(p) /\ loc[p].fresh) => Unused(loc[p].topic)

\* p waits for a pooled connection while the operation it runs holds one
WaitsHolding(p) == pc[p] \in {"mr_connect", "ct_connect"}

\* C37: operations never wait on one another in a cycle: when the pool is
\* exhausted, some operation that holds a connection is not itself waiting
\* for one, so that a connection comes back without an acquisition failure.
C37_NoWaitCycle ==
  (inUse = PoolMax /\ \E p \in Procs : WaitsHolding(p))
    => \E q \in Procs : Held(q) > 0 /\ ~WaitsHolding(q)

\* p is in the retention pass of a put that inserted into messages
SharedPass(p) ==
  IsPut(p) /\ loc[p].unit = Messages /\ pc[p] \in RetentionLabels

\* C38: the retention pass of a put to a topic on the generic table works on
\* the whole table messages: it reads the footprint of all its rows, its
\* DELETE removes the rows that come first in (received_at, id) order among
\* all rows, whatever their topic_name, as many as it asked for or all that
\* are left, and no step of the pass changes another table.
C38_SharedRetention ==
  [][\A p \in Procs :
       (SharedPass(p) /\ pc'[p] # pc[p]) =>
         /\ \A t \in DOMAIN tables \ {Messages} :
              t \in DOMAIN tables' /\ tables'[t] = tables[t]
         /\ DOMAIN tables' = DOMAIN tables
         /\ (pc[p] = "mr_size" /\ pc'[p] = "mr_count")
              => loc'[p].F = SumSizes(tables[Messages].rows) + tables[Messages].dead
         /\ (pc[p] = "mr_delete" /\ faults' = faults)
              => LET S == tables[Messages].rows
                     D == S \ tables'[Messages].rows
                 IN
                 /\ tables'[Messages].rows \subseteq S
                 /\ Cardinality(D) = Min(Cardinality(S), loc[p].k)
                 /\ \A d \in D : \A r \in S \ D : Before(d, r)
         /\ (pc[p] # "mr_delete" \/ faults' # faults)
              => tables'[Messages].rows = tables[Messages].rows]_vars

\* two puts were issued: the put to one topic stored its row and its pass
\* evicted nothing; the pass of the put to the other topic then removed that
\* row from messages; the table topic_a_b has its row
C38_Witness ==
  \E p, q \in Procs :
    /\ ops = 2 /\ faults = 0
    /\ Succeeded(p) /\ IsPut(p) /\ Succeeded(q) /\ IsPut(q)
    /\ loc[p].topic # loc[q].topic
    /\ loc[q].deleted = 0 /\ loc[p].deleted >= 1
    /\ ~ \E r \in tables[Messages].rows : r.id = loc[q].id
    /\ \E r \in tables[Messages].rows : r.id = loc[p].id
    /\ Cardinality(tables[getTopicTableName(TopicA)].rows) = 1

\* C39: when a createTopic(name, Dedicated) and a deleteTopic(name), issued
\* concurrently on an empty registry, have both completed without error, the
\* name is unregistered and has no table, or it is registered as dedicated
\* and has its table.
C39_CreateDeleteRace ==
  \A p, q \in Procs :
    ( /\ ops = 2 /\ faults = 0
      /\ Succeeded(p) /\ IsCreate(p) /\ loc[p].ded
      /\ Succeeded(q) /\ loc[q].op = "deleteTopic"
      /\ loc[p].topic = loc[q].topic )
    => LET n == loc[p].topic IN
       \/ Unused(n)
       \/ /\ n \in DOMAIN topics /\ topics[n].use_dedicated_table
          /\ getTopicTableName(n) \in DOMAIN tables

\* the map holds the topics whose last acknowledged request is a SUBSCRIBE
MapMatchesAcks == DOMAIN subscribedTopics = session.acked

\* isConnected is true from a connect event to the next error or close event
ConnectedBetweenEvents == isConnected <=> session.event = "connect"

\* a connect event hands one SUBSCRIBE to the client for each topic of the map
ResubscribesOnConnect ==
  (~session.online /\ session'.online) =>
    \A t \in DOMAIN subscribedTopics :
      \E i \in (Len(client.callbacks) + 1)..Len(client'.callbacks) :
        client'.callbacks[i].topic = t /\ client'.callbacks[i].kind = "resubscribe"

\* C40: after any subscribe and unsubscribe calls, broker callbacks and
\* connection events, subscribedTopics holds exactly the topics whose
\* subscription the broker acknowledged without error and that were not
\* unsubscribed since; each connect event subscribes every topic of the map
\* again; isConnected is true exactly from a connect event to the next error
\* or close event
C40_SubscriptionState ==
  /\ [](MapMatchesAcks /\ ConnectedBetweenEvents)
  /\ [][ResubscribesOnConnect]_vars

====
